---------------------------- MODULE Spec2Model ----------------------------
(***************************************************************************)
(* A model of the two dealer-locator scrapers of the repository:           *)
(*                                                                         *)
(*   scrape_snowplows/scrape_buyers_dealers.py   (the JSON flow, "buyers") *)
(*   scrape_snowplows/scrape_western_dealers.py  (the URL flow, "western") *)
(*                                                                         *)
(* Python strings are sequences of one-character strings, so that          *)
(* str.upper, str.strip, re.sub and string concatenation are computed on   *)
(* characters.  Names carry the suffix _B or _W where both scripts define  *)
(* a function of the same name.                                            *)
(***************************************************************************)
EXTENDS Integers, Sequences, FiniteSets, TLC

VARIABLES
    flow,         \* which script this behaviour runs: "buyers" or "western"
    pc,           \* the position of the script's control
    postal_pairs, \* the list read_postal_codes returned
    idx,          \* the number of queries the loop has iterated over
    attempted,    \* trace of the queries whose search was started, in order
    cache,        \* the content of western_dealer_urls_cache.json
    ckpt,         \* the set handed to the most recent cache write, if any
    loaded,       \* the set the cache load left in dealer_urls
    dealer_urls,  \* western: the in-memory set of discovered URLs
    json_blobs,   \* buyers: the JSON payloads captured for the current query
    dealers,      \* buyers: the per-query list; western: the record list
    all_dealers,  \* buyers: the accumulated list
    pending,      \* western: the submitted futures not yet collected
    unique,       \* the result of dedupe_dealers
    export,       \* the rows written to the output file
    argv,         \* the arguments and the postal-code file, until main reads them
    fetched       \* western: the response of the future collected last

vars == <<flow, pc, postal_pairs, idx, attempted, cache, ckpt, loaded,
          dealer_urls, json_blobs, dealers, all_dealers, pending, unique,
          export, argv, fetched>>

----------------------------------------------------------------------------
(* Bounds of the model. *)

MaxDedupeLen == 3

----------------------------------------------------------------------------
(* Characters and strings. *)

LowerLetters == <<"a","b","c","d","e","f","g","h","i","j","k","l","m","n","o","p","q","r","s","t","u","v","w","x","y","z">>
UpperLetters == <<"A","B","C","D","E","F","G","H","I","J","K","L","M","N","O","P","Q","R","S","T","U","V","W","X","Y","Z">>
Digits == {"0","1","2","3","4","5","6","7","8","9"}
Whitespace == {" ", "\t", "\n"}

Range(s) == {s[i] : i \in 1..Len(s)}

LowerSet == Range(LowerLetters)
UpperSet == Range(UpperLetters)

IndexIn(c, letters) == CHOOSE i \in 1..Len(letters) : letters[i] = c

\* str.upper() and str.lower() on one character
UpperOf == [c \in LowerSet |-> UpperLetters[IndexIn(c, LowerLetters)]]
LowerOf == [c \in UpperSet |-> LowerLetters[IndexIn(c, UpperLetters)]]
upper_ch(c) == IF c \in LowerSet THEN UpperOf[c] ELSE c
lower_ch(c) == IF c \in UpperSet THEN LowerOf[c] ELSE c

\* str.upper()
upper(s) == [i \in 1..Len(s) |-> upper_ch(s[i])]

\* re.sub(r"[^A-Z0-9]+", "", s)
AZ09 == UpperSet \cup Digits
sub_non_AZ09(s) == SelectSeq(s, LAMBDA c : c \in AZ09)

\* str.strip()
RECURSIVE lstrip(_)
lstrip(s) == IF s # <<>> /\ Head(s) \in Whitespace THEN lstrip(Tail(s)) ELSE s
RECURSIVE rstrip(_)
rstrip(s) == IF s # <<>> /\ s[Len(s)] \in Whitespace THEN rstrip(SubSeq(s, 1, Len(s) - 1)) ELSE s
strip(s) == rstrip(lstrip(s))

\* re.sub(r"\s+", " ", s): every maximal run of whitespace becomes one space
RECURSIVE collapse_ws(_)
collapse_ws(s) ==
    IF s = <<>> THEN <<>>
    ELSE IF Head(s) \in Whitespace
         THEN <<" ">> \o collapse_ws(lstrip(s))
         ELSE <<Head(s)>> \o collapse_ws(Tail(s))

normalize_whitespace(s) == collapse_ws(strip(s))

BAR == <<"|">>
US == <<"U","S">>
CA == <<"C","A">>
EMPTY == <<>>

----------------------------------------------------------------------------
(* Texts of the inputs. *)

\* the texts the inputs are made of: names, addresses, phone numbers and
\* postal codes as pages and mappings spell them
TEXT ==
    [CODE_US |-> <<"1","2","5","5","0">>,
     CODE_CA |-> <<"M","5","V"," ","2","T","6">>,
     CODE_CA_CELL |-> <<" ","m","5","v"," ","2","t","6"," ">>,
     CODE_MX |-> <<"0","1","0","0","0">>,
     MX |-> <<"M","X">>,
     NEWBURGH |-> <<"N","e","w","b","u","r","g","h">>,
     NY |-> <<"N","Y">>,
     STREET_NUM5 |-> <<"1","2","3","4","5"," ","M","a","i","n"," ","S","t">>,
     STREET_PO |-> <<"A","c","m","e",","," ","P","O"," ","1","2","3","4","5",",">>,
     CITY_NY |-> <<"N","e","w","b","u","r","g","h",","," ","N","Y">>,
     CITY_NY_NO_COMMA |-> <<"N","e","w","b","u","r","g","h"," ","N","Y">>,
     CITY_ON |-> <<"T","o","r","o","n","t","o",","," ","O","N">>,
     CITY_ZZ |-> <<"N","e","w","b","u","r","g","h",","," ","Z","Z">>,
     CITY_ONLY |-> <<"N","e","w","b","u","r","g","h">>,
     ZIP4 |-> <<"1","2","5","5","0","-","1","2","3","4">>,
     CODE_CA_TIGHT |-> <<"M","5","V","2","T","6">>,
     CODE_CA_BAD |-> <<"D","5","V"," ","2","T","6">>,
     SIX_DIGITS |-> <<"1","2","5","5","0","1">>,
     ADDR_NEWBURGH |-> <<"1","9","5"," ","S","o","u","t","h"," "," ","P","l","a","n","k"," ","R","o","a","d"," ","N","e","w","b","u","r","g","h",","," ","N","Y"," ","1","2","5","5","0">>,
     ADDR_TORONTO |-> <<"1","2","8"," ","M","a","i","n"," ","S","t"," ","T","o","r","o","n","t","o",","," ","O","N"," ","M","5","V"," ","2","T","6">>,
     ADDR_NO_POSTAL |-> <<"R","o","u","t","e"," ","9">>,
     H1_ACME |-> <<" ","A","c","m","e"," "," ","P","l","o","w","s"," ">>,
     H1_ACME_UPPER |-> <<"A","C","M","E"," ","P","L","O","W","S">>,
     H1_NORTH |-> <<"N","o","r","t","h"," ","S","n","o","w">>,
     H1_BLANK |-> <<" ","\t"," ">>,
     PHONE_DASH |-> <<"5","5","5","-","1","2","3","4">>,
     PHONE_PLAIN |-> <<"5","5","5","1","2","3","4">>,
     ACME |-> <<"A","c","m","e"," ","P","l","o","w","s">>,
     ACME_PADDED |-> <<" ","A","c","m","e"," "," ","P","l","o","w","s"," ">>,
     MAIN |-> <<"1"," ","M","a","i","n"," ","S","t">>,
     NORTH |-> <<"N","o","r","t","h"," ","S","n","o","w">>,
     LAKE |-> <<"9"," ","L","a","k","e"," ","R","d">>,
     Canada |-> <<"C","a","n","a","d","a">>,
     BLANK |-> <<" "," ">>,
     ELM |-> <<"5"," ","E","l","m"," ","S","t">>,
     RESULTS |-> <<"R","e","s","u","l","t","s">>,
     ONE |-> <<"1">>,
     Usa |-> <<"U","S","A">>,
     NAME_OBRIEN |-> <<"O","'","B","r","i","e","n"," ","M","o","t","o","r","s",","," ","I","n","c",".">>,
     NAME_OBRIEN_UPPER |-> <<"O","B","R","I","E","N"," ","M","O","T","O","R","S"," ","I","N","C">>,
     STREET_MAIN |-> <<"1"," ","M","a","i","n"," ","S","t",".">>,
     STREET_MAIN_UPPER |-> <<"1"," ","M","A","I","N"," ","S","T">>,
     STATE_NEW_YORK |-> <<"N","e","w"," ","Y","o","r","k">>,
     STATE_NEW_YORK_UPPER |-> <<"N","E","W"," ","Y","O","R","K">>,
     PHONE_OTHER |-> <<"5","5","5","-","9","9","9","9">>,
     ADDR_MAIN |-> <<"1"," ","M","a","i","n"," ","S","t","."," ","N","e","w","b","u","r","g","h",","," ","N","Y"," ","1","2","5","5","0">>,
     ADDR_MAIN_LOWER |-> <<"1"," ","m","a","i","n"," ","s","t"," ","n","e","w","b","u","r","g","h",","," ","n","y"," ","1","2","5","5","0">>,
     ADDR_MAIN_NO_COMMA |-> <<"1"," ","M","a","i","n"," ","S","t","."," ","N","e","w","b","u","r","g","h"," ","N","Y"," ","1","2","5","5","0">>,
     ADDR_MAIN_TORONTO |-> <<"1"," ","M","a","i","n"," ","S","t","."," ","T","o","r","o","n","t","o",","," ","O","N"," ","M","5","V"," ","2","T","6">>,
     us_lower |-> <<"u","s">>,
     USA_PADDED |-> <<" ","u","s","a"," ">>,
     United_States |-> <<"U","n","i","t","e","d"," ","S","t","a","t","e","s">>,
     UNITED_STATES_WIDE |-> <<"U","N","I","T","E","D"," "," ","S","T","A","T","E","S">>,
     United_States_of_America |-> <<"U","n","i","t","e","d"," ","S","t","a","t","e","s"," ","o","f"," ","A","m","e","r","i","c","a">>,
     ca_lower |-> <<"c","a">>,
     CANADA_PADDED |-> <<" ","C","A","N","A","D","A"," ">>,
     CAN |-> <<"C","A","N">>,
     Mexico |-> <<"M","e","x","i","c","o">>,
     U_S |-> <<"U",".","S",".">>]

\* the field names the captured mappings use
KEY ==
    [name |-> <<"n","a","m","e">>,
     dealerName |-> <<"d","e","a","l","e","r","N","a","m","e">>,
     Street1 |-> <<"S","t","r","e","e","t","1">>,
     address |-> <<"a","d","d","r","e","s","s">>,
     phone |-> <<"p","h","o","n","e">>,
     phoneNumber |-> <<"p","h","o","n","e","N","u","m","b","e","r">>,
     country |-> <<"c","o","u","n","t","r","y">>,
     company |-> <<"c","o","m","p","a","n","y">>,
     title |-> <<"t","i","t","l","e">>,
     results |-> <<"r","e","s","u","l","t","s">>,
     page |-> <<"p","a","g","e">>,
     state |-> <<"s","t","a","t","e">>,
     postal_code |-> <<"p","o","s","t","a","l","_","c","o","d","e">>,
     COMPANY |-> <<"C","O","M","P","A","N","Y">>,
     city |-> <<"c","i","t","y">>,
     Town |-> <<"T","o","w","n">>,
     region |-> <<"r","e","g","i","o","n">>,
     StateCode |-> <<"S","t","a","t","e","C","o","d","e">>,
     zip |-> <<"z","i","p">>,
     PostalCode |-> <<"P","o","s","t","a","l","C","o","d","e">>,
     postcode |-> <<"p","o","s","t","c","o","d","e">>,
     TEL |-> <<"T","E","L">>,
     province |-> <<"p","r","o","v","i","n","c","e">>,
     postal |-> <<"p","o","s","t","a","l">>,
     data |-> <<"d","a","t","a">>,
     countryCode |-> <<"c","o","u","n","t","r","y","C","o","d","e">>,
     Country |-> <<"C","o","u","n","t","r","y">>]

----------------------------------------------------------------------------
(* The Dealer dataclass (the same in both scripts). *)

Dealer(name, country, state, address, phone) ==
    [dealer_name |-> name, country |-> country, state |-> state,
     address |-> address, phone |-> phone, email |-> EMPTY]

----------------------------------------------------------------------------
(* dedupe_dealers of the JSON flow. *)

\* a normalisation that forgets to upper-case
norm_no_upper(s) == sub_non_AZ09(s)

\* lines 408-409
norm(s) == sub_non_AZ09(upper(s))

key_B(d) ==
    d.country \o BAR \o norm(d.state) \o BAR \o norm(d.address) \o BAR
        \o norm(d.dealer_name) \o BAR \o norm(d.phone)

RECURSIVE dedupe_loop_B(_, _, _, _)
dedupe_loop_B(ds, i, seen, out) ==
    IF i > Len(ds) THEN out
    ELSE LET k == key_B(ds[i]) IN
         IF k \in seen
         THEN dedupe_loop_B(ds, i + 1, seen, out)
         ELSE dedupe_loop_B(ds, i + 1, seen \cup {k}, Append(out, ds[i]))

\* a dedupe that stops looking for duplicates after the first one it skips
RECURSIVE dedupe_first_only_B(_, _, _, _, _)
dedupe_first_only_B(ds, i, seen, out, skipped) ==
    IF i > Len(ds) THEN out
    ELSE LET k == key_B(ds[i]) IN
         IF k \in seen /\ ~skipped
         THEN dedupe_first_only_B(ds, i + 1, seen, out, TRUE)
         ELSE dedupe_first_only_B(ds, i + 1, seen \cup {k}, Append(out, ds[i]), skipped)
dedupe_dealers_B_once(ds) == dedupe_first_only_B(ds, 1, {}, <<>>, FALSE)

dedupe_dealers_B(ds) == dedupe_loop_B(ds, 1, {}, <<>>)

----------------------------------------------------------------------------
(* dedupe_dealers of the URL flow. *)

key_W(d) ==
    LET name == sub_non_AZ09(upper(d.dealer_name))
        addr == sub_non_AZ09(upper(d.address))
    IN  d.country \o BAR \o d.state \o BAR \o addr \o BAR \o name

\* a loop that lets a later record take the place of the one it duplicates
RECURSIVE dedupe_loop_W_last(_, _, _, _)
dedupe_loop_W_last(ds, i, seen, out) ==
    IF i > Len(ds) THEN out
    ELSE LET k == key_W(ds[i]) IN
         IF k \in seen
         THEN dedupe_loop_W_last(ds, i + 1, seen,
                  [j \in 1..Len(out) |-> IF key_W(out[j]) = k THEN ds[i] ELSE out[j]])
         ELSE dedupe_loop_W_last(ds, i + 1, seen \cup {k}, Append(out, ds[i]))

RECURSIVE dedupe_loop_W(_, _, _, _)
dedupe_loop_W(ds, i, seen, out) ==
    IF i > Len(ds) THEN out
    ELSE LET k == key_W(ds[i]) IN
         IF k \in seen
         THEN dedupe_loop_W(ds, i + 1, seen, out)
         ELSE dedupe_loop_W(ds, i + 1, seen \cup {k}, Append(out, ds[i]))

dedupe_dealers_W(ds) == dedupe_loop_W(ds, 1, {}, <<>>)

----------------------------------------------------------------------------
(* Python objects that are not strings.  A str is a sequence of characters *)
(* of ASCII (the printable ones, in code point order, without the double   *)
(* quote, the backslash and the backquote); an object of another type is a *)
(* one-element sequence holding a token that is no character, so that sets *)
(* of mixed objects stay comparable.                                       *)

ASCII == <<" ","!","#","$","%","&","'","(",")","*","+",",","-",".","/","0","1","2","3","4","5","6","7","8","9",":",";","<","=",">","?","@","A","B","C","D","E","F","G","H","I","J","K","L","M","N","O","P","Q","R","S","T","U","V","W","X","Y","Z","[","]","^","_","a","b","c","d","e","f","g","h","i","j","k","l","m","n","o","p","q","r","s","t","u","v","w","x","y","z","{","|","}","~">>

INT_OBJ == <<"<int 7>">>       \* the JSON number 7
LIST_OBJ == <<"<list []>">>    \* a JSON array nested in the cache array
NONE_OBJ == <<"<None>">>       \* Python's None

NonStrObjects == {INT_OBJ, LIST_OBJ, NONE_OBJ}
isinstance_str(o) == o \notin NonStrObjects
hashable(o) == o # LIST_OBJ

\* the rank of a character in code point order
OrdOf == [c \in Range(ASCII) |-> IndexIn(c, ASCII)]
ord(c) == OrdOf[c]

\* a < b for two str objects (code point order, a proper prefix first)
RECURSIVE str_lt_from(_, _, _)
str_lt_from(a, b, i) ==
    IF i > Len(b) THEN FALSE
    ELSE IF i > Len(a) THEN TRUE
    ELSE IF a[i] = b[i] THEN str_lt_from(a, b, i + 1)
    ELSE ord(a[i]) < ord(b[i])
str_lt(a, b) == str_lt_from(a, b, 1)

\* sorted(S) raises TypeError when S mixes str and int objects
sortable(S) == (\A o \in S : isinstance_str(o)) \/ (\A o \in S : ~isinstance_str(o))

RECURSIVE sorted(_)
sorted(S) ==
    IF S = {} THEN <<>>
    ELSE LET m == CHOOSE x \in S : \A y \in S \ {x} : ~isinstance_str(x) \/ str_lt(x, y)
         IN  <<m>> \o sorted(S \ {m})

\* startswith, the in operator on strings, and split("#")[0]
match_at(s, p, i) == \A j \in 1..Len(p) : s[i + j - 1] = p[j]
startswith(s, p) == Len(p) <= Len(s) /\ match_at(s, p, 1)
contains(s, p) == \E i \in 1..(Len(s) - Len(p) + 1) : match_at(s, p, i)
split_hash_0(s) ==
    IF "#" \in Range(s)
    THEN SubSeq(s, 1, (CHOOSE i \in 1..Len(s) : s[i] = "#" /\ \A j \in 1..(i - 1) : s[j] # "#") - 1)
    ELSE s

----------------------------------------------------------------------------
(* The resumable cache of the URL flow. *)

WESTERN_ORIGIN == <<"h","t","t","p","s",":","/","/","w","e","s","t","e","r","n","p","l","o","w","s",".","c","o","m","/">>
DEALER_URL_KEYWORD == <<"/","d","e","a","l","e","r","-","d","e","t","a","i","l","s","/">>
OTHER_ORIGIN == <<"h","t","t","p","s",":","/","/","e","x","a","m","p","l","e",".","c","o","m">>

URL_A == WESTERN_ORIGIN \o <<"u","s">> \o DEALER_URL_KEYWORD \o <<"a">>
URL_B == WESTERN_ORIGIN \o <<"c","a">> \o DEALER_URL_KEYWORD \o <<"b">>
URL_A_FRAGMENT == URL_A \o <<"#","m","a","p">>
URL_FOREIGN == OTHER_ORIGIN \o DEALER_URL_KEYWORD \o <<"z">>
URL_OLD == WESTERN_ORIGIN \o <<"o","l","d">>

\* the file: absent, not JSON, or a JSON value of one of four shapes; items
\* are the elements Python iterates over (array elements, object keys, the
\* characters of a string)
CacheFile(kind, items) == [kind |-> kind, items |-> items]

\* cache_path.write_text(json.dumps(sorted(dealer_urls)))
json_dumps_sorted(S) == CacheFile("array", sorted(S))

\* set.update(iterable): elements are added one at a time, and an unhashable
\* element raises TypeError after the elements before it were added
RECURSIVE set_update(_, _)
set_update(S, items) ==
    IF items = <<>> THEN [set |-> S, raised |-> FALSE]
    ELSE IF ~hashable(Head(items)) THEN [set |-> S, raised |-> TRUE]
    ELSE set_update(S \cup {Head(items)}, Tail(items))

\* a load that forgets the first element of the array
load_cache_skip_first(file) ==
    CASE file.kind \in {"absent", "invalid", "null"} -> {}
      [] file.kind = "string" -> {<<file.items[i]>> : i \in 1..Len(file.items)}
      [] OTHER -> set_update({}, IF file.items = <<>> THEN <<>> ELSE Tail(file.items)).set

\* lines 192-200: the set the load step leaves in dealer_urls
load_cache(file) ==
    CASE file.kind = "absent"  -> {}                          \* exists() is False
      [] file.kind = "invalid" -> {}                          \* json.loads raises
      [] file.kind = "null"    -> {}                          \* update(None) raises
      [] file.kind = "string"  -> {<<file.items[i]>> : i \in 1..Len(file.items)}
      [] OTHER                 -> set_update({}, file.items).set

\* the str objects of a set
Urls(S) == {o \in S : isinstance_str(o)}

\* the strings the file holds as elements of a JSON array
persisted(file) == IF file.kind = "array" THEN Urls(Range(file.items)) ELSE {}

----------------------------------------------------------------------------
(* guess_country_and_state_from_address of the URL flow. *)

US_STATE_CODES == {
    <<"A","L">>, <<"A","K">>, <<"A","Z">>, <<"A","R">>, <<"C","A">>,
    <<"C","O">>, <<"C","T">>, <<"D","E">>, <<"D","C">>, <<"F","L">>,
    <<"G","A">>, <<"H","I">>, <<"I","D">>, <<"I","L">>, <<"I","N">>,
    <<"I","A">>, <<"K","S">>, <<"K","Y">>, <<"L","A">>, <<"M","E">>,
    <<"M","D">>, <<"M","A">>, <<"M","I">>, <<"M","N">>, <<"M","S">>,
    <<"M","O">>, <<"M","T">>, <<"N","E">>, <<"N","V">>, <<"N","H">>,
    <<"N","J">>, <<"N","M">>, <<"N","Y">>, <<"N","C">>, <<"N","D">>,
    <<"O","H">>, <<"O","K">>, <<"O","R">>, <<"P","A">>, <<"R","I">>,
    <<"S","C">>, <<"S","D">>, <<"T","N">>, <<"T","X">>, <<"U","T">>,
    <<"V","T">>, <<"V","A">>, <<"W","A">>, <<"W","V">>, <<"W","I">>,
    <<"W","Y">>, <<"P","R">>}
CA_PROVINCE_CODES == {
    <<"A","B">>, <<"B","C">>, <<"M","B">>, <<"N","B">>, <<"N","L">>,
    <<"N","S">>, <<"N","T">>, <<"N","U">>, <<"O","N">>, <<"P","E">>,
    <<"Q","C">>, <<"S","K">>, <<"Y","T">>}

\* \w, \d, \s and [A-Z] of the regular expressions
WordChars == UpperSet \cup LowerSet \cup Digits \cup {"_"}

\* the character at position i, or a value that is no character
At(a, i) == IF i \in 1..Len(a) THEN a[i] ELSE "<end>"

\* \b between positions i - 1 and i
word_boundary(a, i) == (At(a, i - 1) \in WordChars) # (At(a, i) \in WordChars)

\* [ABCEGHJ-NPRSTVXY] and [ABCEGHJ-NPRSTV-Z]
CA_FIRST_LETTER == {"A","B","C","E","G","H","J","K","L","M","N","P","R","S","T","V","X","Y"}
CA_OTHER_LETTER == CA_FIRST_LETTER \cup {"W","Z"}

\* \d[ABCEGHJ-NPRSTV-Z]\d\b at position i
ca_tail_at(a, i) ==
    /\ (At(a, i) \in Digits) /\ At(a, i + 1) \in CA_OTHER_LETTER /\ (At(a, i + 2) \in Digits)
    /\ word_boundary(a, i + 3)

\* \b[ABCEGHJ-NPRSTVXY]\d[ABCEGHJ-NPRSTV-Z][ -]?\d[ABCEGHJ-NPRSTV-Z]\d\b
\* matched at position i, and searched
ca_postal_at(a, i) ==
    /\ word_boundary(a, i)
    /\ At(a, i) \in CA_FIRST_LETTER /\ (At(a, i + 1) \in Digits) /\ At(a, i + 2) \in CA_OTHER_LETTER
    /\ \/ ca_tail_at(a, i + 3)
       \/ At(a, i + 3) \in {" ", "-"} /\ ca_tail_at(a, i + 4)
search_ca_postal(a) == \E i \in 1..Len(a) : ca_postal_at(a, i)

\* \b(\d{5})(?:-\d{4})?\b matched at position i, and searched
us_zip_at(a, i) ==
    /\ word_boundary(a, i)
    /\ \A j \in i..(i + 4) : (At(a, j) \in Digits)
    /\ \/ word_boundary(a, i + 5)
       \/ /\ At(a, i + 5) = "-"
          /\ \A j \in (i + 6)..(i + 9) : (At(a, j) \in Digits)
          /\ word_boundary(a, i + 10)
search_us_zip(a) == \E i \in 1..Len(a) : us_zip_at(a, i)

\* the first position after i that holds no whitespace
RECURSIVE skip_spaces(_, _)
skip_spaces(a, i) == IF (At(a, i) \in Whitespace) THEN skip_spaces(a, i + 1) ELSE i

\* ,\s*([A-Z]{2})\s+ matched with the comma at position i: the position
\* after the whitespace that follows the two letters, or 0
after_code_at(a, i) ==
    LET j == skip_spaces(a, i + 1)
        k == skip_spaces(a, j + 2)
    IN  IF At(a, i) = "," /\ (At(a, j) \in UpperSet) /\ (At(a, j + 1) \in UpperSet) /\ k > j + 2
        THEN k ELSE 0

\* ,\s*([A-Z]{2})\s+[ABCEGHJ-NPRSTVXY]\d matched with the comma at i
ca_code_at(a, i) ==
    LET k == after_code_at(a, i)
    IN  k > 0 /\ At(a, k) \in CA_FIRST_LETTER /\ (At(a, k + 1) \in Digits)

\* ,\s*([A-Z]{2})\s+\d{5}\b matched with the comma at i
us_code_at(a, i) ==
    LET k == after_code_at(a, i)
    IN  k > 0 /\ (\A j \in k..(k + 4) : (At(a, j) \in Digits)) /\ word_boundary(a, k + 5)

\* group(1) of the leftmost match whose comma is at position i
group1(a, i) == LET j == skip_spaces(a, i + 1) IN SubSeq(a, j, j + 1)

\* a guess that takes the state from the last match, not the leftmost
guess_country_and_state_last_match(address) ==
    LET a == upper(normalize_whitespace(address))
        ca_hits == {i \in 1..Len(a) : ca_code_at(a, i)}
        us_hits == {i \in 1..Len(a) : us_code_at(a, i)}
        last(hits) == CHOOSE i \in hits : \A j \in hits : i >= j
    IN  IF search_ca_postal(a)
        THEN IF ca_hits # {} /\ group1(a, last(ca_hits)) \in CA_PROVINCE_CODES
             THEN <<CA, group1(a, last(ca_hits))>>
             ELSE <<CA, EMPTY>>
        ELSE IF search_us_zip(a)
        THEN IF us_hits # {} /\ group1(a, last(us_hits)) \in US_STATE_CODES
             THEN <<US, group1(a, last(us_hits))>>
             ELSE <<US, EMPTY>>
        ELSE <<EMPTY, EMPTY>>

\* a guess that looks for the ZIP code first
guess_country_and_state_us_first(address) ==
    LET a == upper(normalize_whitespace(address))
        ca_hits == {i \in 1..Len(a) : ca_code_at(a, i)}
        us_hits == {i \in 1..Len(a) : us_code_at(a, i)}
        first(hits) == CHOOSE i \in hits : \A j \in hits : i <= j
    IN  IF search_us_zip(a)
        THEN IF us_hits # {} /\ group1(a, first(us_hits)) \in US_STATE_CODES
             THEN <<US, group1(a, first(us_hits))>>
             ELSE <<US, EMPTY>>
        ELSE IF search_ca_postal(a)
        THEN IF ca_hits # {} /\ group1(a, first(ca_hits)) \in CA_PROVINCE_CODES
             THEN <<CA, group1(a, first(ca_hits))>>
             ELSE <<CA, EMPTY>>
        ELSE <<EMPTY, EMPTY>>

guess_country_and_state_from_address(address) ==
    LET a == upper(normalize_whitespace(address))
        ca_hits == {i \in 1..Len(a) : ca_code_at(a, i)}
        us_hits == {i \in 1..Len(a) : us_code_at(a, i)}
        first(hits) == CHOOSE i \in hits : \A j \in hits : i <= j
    IN  IF search_ca_postal(a)
        THEN IF ca_hits # {} /\ group1(a, first(ca_hits)) \in CA_PROVINCE_CODES
             THEN <<CA, group1(a, first(ca_hits))>>
             ELSE <<CA, EMPTY>>
        ELSE IF search_us_zip(a)
        THEN IF us_hits # {} /\ group1(a, first(us_hits)) \in US_STATE_CODES
             THEN <<US, group1(a, first(us_hits))>>
             ELSE <<US, EMPTY>>
        ELSE <<EMPTY, EMPTY>>

----------------------------------------------------------------------------
(* parse_western_dealer_page.  A response is what session.get does for one *)
(* URL: it raises a RequestException, or returns a status and a page; of   *)
(* the page the model keeps the text of the first h1 (h1 = <<>> when the   *)
(* page has none), the texts extract_field_after_label finds after the     *)
(* Address and Phone labels, and the text of the first tel: link.          *)

Response(raises, status, h1, address, phone, tel) ==
    [raises |-> raises, status |-> status, h1 |-> h1, address |-> address,
     phone |-> phone, tel |-> tel]

\* a parser that does not look at the status code
parse_western_dealer_page_any_status(resp) ==
    IF resp.raises THEN <<>>
    ELSE LET dealer_name == IF resp.h1 = <<>> THEN EMPTY ELSE normalize_whitespace(resp.h1[1])
             address == normalize_whitespace(resp.address)
             cs == guess_country_and_state_from_address(address)
         IN  IF dealer_name = EMPTY THEN <<>>
             ELSE <<Dealer(dealer_name, cs[1], cs[2], address, normalize_whitespace(resp.phone))>>

\* the result is <<>> for None and <<d>> for a Dealer d
parse_western_dealer_page(resp) ==
    IF resp.raises \/ resp.status # 200 THEN <<>>
    ELSE LET dealer_name == IF resp.h1 = <<>> THEN EMPTY ELSE normalize_whitespace(resp.h1[1])
             phone0 == resp.phone
             phone1 == IF phone0 = EMPTY /\ resp.tel # <<>>
                       THEN normalize_whitespace(resp.tel[1]) ELSE phone0
             address == normalize_whitespace(resp.address)
             phone == normalize_whitespace(phone1)
             cs == guess_country_and_state_from_address(address)
         IN  IF dealer_name = EMPTY THEN <<>>
             ELSE <<Dealer(dealer_name, cs[1], cs[2], address, phone)>>

----------------------------------------------------------------------------
(* Inputs of the URL flow. *)

CheckpointEvery == 25

MaxShortRun == 2
MaxPastCheckpoint == 1
MaxCacheLen == 2

\* the lengths of the postal-code list: short runs, and runs that reach the
\* periodic cache write
QueryCounts == (1..MaxShortRun) \cup (CheckpointEvery..(CheckpointEvery + MaxPastCheckpoint))

CodeAt(i) == IF i % 2 = 1 THEN TEXT.CODE_US ELSE TEXT.CODE_CA

SeqsUpTo(S, n) == UNION {[1..k -> S] : k \in 0..n}

\* cache files this program did not write, or that were damaged since
CacheItems == {URL_A, URL_OLD, INT_OBJ, LIST_OBJ}
ForeignCaches ==
    {CacheFile("absent", <<>>), CacheFile("invalid", <<>>), CacheFile("null", <<>>),
     CacheFile("string", <<"a","b">>), CacheFile("object", <<URL_OLD>>)}
    \cup {CacheFile("array", items) : items \in SeqsUpTo(CacheItems, MaxCacheLen)}

\* the sets an earlier run may have written
PriorUrls == {URL_A, URL_B, URL_OLD}

\* what page.eval_on_selector_all may return for one query
HrefUniverse == {URL_A, URL_B, URL_A_FRAGMENT, URL_FOREIGN, NONE_OBJ}

\* what the site may answer for a URL
PageUniverse ==
    {Response(TRUE, 0, <<>>, EMPTY, EMPTY, <<>>),
     Response(FALSE, 404, <<TEXT.H1_ACME>>, TEXT.ADDR_NEWBURGH, TEXT.PHONE_DASH, <<>>),
     Response(FALSE, 200, <<>>, TEXT.ADDR_NEWBURGH, TEXT.PHONE_DASH, <<>>),
     Response(FALSE, 200, <<TEXT.H1_BLANK>>, TEXT.ADDR_NEWBURGH, TEXT.PHONE_DASH, <<>>),
     Response(FALSE, 200, <<TEXT.H1_ACME>>, TEXT.ADDR_NEWBURGH, TEXT.PHONE_DASH, <<>>),
     Response(FALSE, 200, <<TEXT.H1_ACME_UPPER>>, TEXT.ADDR_NEWBURGH, EMPTY, <<TEXT.PHONE_PLAIN>>),
     Response(FALSE, 200, <<TEXT.H1_NORTH>>, TEXT.ADDR_TORONTO, EMPTY, <<>>),
     Response(FALSE, 200, <<TEXT.H1_NORTH>>, TEXT.ADDR_NO_POSTAL, TEXT.PHONE_PLAIN, <<>>)}

\* a detail URL whose page shows one of many addresses: a street, a city
\* with or without a comma and a two-letter code, and a postal code of one
\* of several shapes, or none; or one of the two addresses of the docstring
GeoSite ==
    [url |-> WESTERN_ORIGIN \o <<"u","s">> \o DEALER_URL_KEYWORD \o <<"g","e","o">>,
     pages |->
        {Response(FALSE, 200, <<TEXT.H1_ACME>>,
                  street \o <<" ">> \o city \o <<" ">> \o postal, EMPTY, <<>>) :
            street \in {TEXT.MAIN, TEXT.STREET_NUM5, TEXT.STREET_PO},
            city \in {TEXT.CITY_NY, TEXT.CITY_NY_NO_COMMA, TEXT.CITY_ON,
                      TEXT.CITY_ZZ, TEXT.CITY_ONLY},
            postal \in {TEXT.CODE_US, TEXT.ZIP4, TEXT.CODE_CA, TEXT.CODE_CA_TIGHT,
                        TEXT.CODE_CA_BAD, TEXT.SIX_DIGITS, EMPTY}}
        \cup {Response(FALSE, 200, <<TEXT.H1_ACME>>, TEXT.ADDR_NEWBURGH, EMPTY, <<>>),
              Response(FALSE, 200, <<TEXT.H1_ACME>>, TEXT.ADDR_TORONTO, EMPTY, <<>>)}]

\* session.get(u): requests raises MissingSchema, a RequestException, for
\* what is no http URL
IsHttpUrl(u) == isinstance_str(u) /\ startswith(u, <<"h","t","t","p">>)
Responses(u) ==
    IF ~IsHttpUrl(u) THEN {Response(TRUE, 0, <<>>, EMPTY, EMPTY, <<>>)}
    ELSE IF u = GeoSite.url THEN GeoSite.pages ELSE PageUniverse

\* parse_western_dealer_page on every response of the universes, computed once
ParsedPage ==
    [resp \in PageUniverse \cup GeoSite.pages |-> parse_western_dealer_page(resp)]

----------------------------------------------------------------------------
(* run_locator_and_collect_dealer_urls. *)

NoCheckpoint == [has |-> FALSE, set |-> {}]
Checkpoint(S) == [has |-> TRUE, set |-> S]

InitCommon ==
    /\ idx = 0
    /\ attempted = <<>>
    /\ loaded = {}
    /\ dealer_urls = {}
    /\ json_blobs = <<>>
    /\ dealers = <<>>
    /\ all_dealers = <<>>
    /\ pending = {}
    /\ unique = <<>>
    /\ export = <<>>
    /\ fetched = <<>>

\* main has validated the arguments and read a non-empty postal-code list
InitHarvest ==
    /\ flow = "western"
    /\ pc = "load_cache"
    /\ argv = <<>>
    /\ postal_pairs \in {[i \in 1..n |-> CodeAt(i)] : n \in QueryCounts}
    /\ \/ cache \in ForeignCaches /\ ckpt = NoCheckpoint
       \/ \E S \in SUBSET PriorUrls : cache = json_dumps_sorted(S) /\ ckpt = Checkpoint(S)
    /\ InitCommon

\* lines 192-200
W_LoadCache ==
    /\ flow = "western" /\ pc = "load_cache"
    /\ dealer_urls' = load_cache(cache)
    /\ loaded' = load_cache(cache)
    /\ pc' = "open_locator"
    /\ UNCHANGED <<flow, postal_pairs, idx, attempted, cache, ckpt,
                   json_blobs, dealers, all_dealers, pending, unique,
                   export, argv, fetched>>

\* lines 202-219: the browser is launched and the search input is looked
\* for once; get_search_input raises RuntimeError when no selector matches
W_OpenLocator ==
    /\ flow = "western" /\ pc = "open_locator"
    /\ \E found \in BOOLEAN : pc' = IF found THEN "loop" ELSE "crashed"
    /\ UNCHANGED <<flow, postal_pairs, idx, attempted, cache, ckpt, loaded,
                   dealer_urls, json_blobs, dealers, all_dealers, pending,
                   unique, export, argv, fetched>>

\* lines 221-228: the search for the next code is entered
W_SearchOk ==
    /\ flow = "western" /\ pc = "loop" /\ idx < Len(postal_pairs)
    /\ attempted' = Append(attempted, postal_pairs[idx + 1])
    /\ pc' = "collect"
    /\ UNCHANGED <<flow, postal_pairs, idx, cache, ckpt, loaded,
                   dealer_urls, json_blobs, dealers, all_dealers, pending,
                   unique, export, argv, fetched>>

\* a handler that leaves the loop at the first failed search
W_SearchFails_break ==
    /\ flow = "western" /\ pc = "loop" /\ idx < Len(postal_pairs)
    /\ attempted' = Append(attempted, postal_pairs[idx + 1])
    /\ idx' = Len(postal_pairs)
    /\ UNCHANGED <<flow, pc, postal_pairs, cache, ckpt, loaded,
                   dealer_urls, json_blobs, dealers, all_dealers, pending,
                   unique, export, argv, fetched>>

\* lines 229-234: PlaywrightTimeoutError or another Exception while the
\* code is entered: a warning, then continue
W_SearchFails ==
    /\ flow = "western" /\ pc = "loop" /\ idx < Len(postal_pairs)
    /\ attempted' = Append(attempted, postal_pairs[idx + 1])
    /\ idx' = idx + 1
    /\ UNCHANGED <<flow, pc, postal_pairs, cache, ckpt, loaded,
                   dealer_urls, json_blobs, dealers, all_dealers, pending,
                   unique, export, argv, fetched>>

\* a collection that replaces the set by the hrefs of this query
add_hrefs_replace(urls, hrefs) ==
    {split_hash_0(h) : h \in {x \in hrefs : isinstance_str(x)}}

\* lines 246-248
add_hrefs(urls, hrefs) ==
    urls \cup {split_hash_0(h) :
                 h \in {x \in hrefs : /\ isinstance_str(x)
                                      /\ contains(x, DEALER_URL_KEYWORD)
                                      /\ startswith(x, WESTERN_ORIGIN)}}

\* lines 240-257: the hrefs of the result page are collected (hrefs = {}
\* also stands for an evaluation that raises and is ignored), then the cache
\* is written when idx + 1 is a multiple of 25; sorted() raises TypeError on
\* a mixed set
W_Collect ==
    /\ flow = "western" /\ pc = "collect"
    /\ \E hrefs \in SUBSET HrefUniverse :
        LET found == add_hrefs(dealer_urls, hrefs)
            due == (idx + 1) % CheckpointEvery = 0
        IN  /\ dealer_urls' = found
            /\ IF due /\ ~sortable(found)
               THEN pc' = "crashed" /\ UNCHANGED <<idx, cache, ckpt>>
               ELSE /\ pc' = "loop"
                    /\ idx' = idx + 1
                    /\ cache' = IF due THEN json_dumps_sorted(found) ELSE cache
                    /\ ckpt' = IF due THEN Checkpoint(found) ELSE ckpt
    /\ UNCHANGED <<flow, postal_pairs, attempted, loaded, json_blobs,
                   dealers, all_dealers, pending, unique, export, argv,
                   fetched>>

\* lines 259-263: the cache is written once more and the set is returned
W_FinalCheckpoint ==
    /\ flow = "western" /\ pc = "loop" /\ idx = Len(postal_pairs)
    /\ IF sortable(dealer_urls)
       THEN /\ cache' = json_dumps_sorted(dealer_urls)
            /\ ckpt' = Checkpoint(dealer_urls)
            /\ pc' = "harvested"
       ELSE pc' = "crashed" /\ UNCHANGED <<cache, ckpt>>
    /\ UNCHANGED <<flow, postal_pairs, idx, attempted, loaded, dealer_urls,
                   json_blobs, dealers, all_dealers, pending, unique,
                   export, argv, fetched>>

\* lines 475-480: KeyboardInterrupt is raised in the query loop, leaves
\* run_locator_and_collect_dealer_urls and main, and the script exits 130
W_Interrupt ==
    /\ flow = "western" /\ pc \in {"loop", "collect"}
    /\ pc' = "interrupted"
    /\ UNCHANGED <<flow, postal_pairs, idx, attempted, cache, ckpt, loaded,
                   dealer_urls, json_blobs, dealers, all_dealers, pending,
                   unique, export, argv, fetched>>

NextHarvest ==
    \/ W_LoadCache
    \/ W_OpenLocator
    \/ W_SearchOk
    \/ W_SearchFails
    \/ W_Collect
    \/ W_FinalCheckpoint
    \/ W_Interrupt

----------------------------------------------------------------------------
(* main of the URL flow after the harvest, and the end of both mains. *)

\* lines 447-448
M_NoUrls ==
    /\ flow = "western" /\ pc = "harvested" /\ dealer_urls = {}
    /\ pc' = "exit_no_urls"
    /\ UNCHANGED <<flow, postal_pairs, idx, attempted, cache, ckpt, loaded,
                   dealer_urls, json_blobs, dealers, all_dealers, pending,
                   unique, export, argv, fetched>>

\* lines 460-465: one future per URL of sorted(dealer_urls)
M_Submit ==
    /\ flow = "western" /\ pc = "harvested" /\ dealer_urls # {}
    /\ pending' = Range(sorted(dealer_urls))
    /\ dealers' = <<>>
    /\ fetched' = <<>>
    /\ pc' = "fetch"
    /\ UNCHANGED <<flow, postal_pairs, idx, attempted, cache, ckpt, loaded,
                   dealer_urls, json_blobs, all_dealers, unique, export,
                   argv>>

\* a pool whose workers append their record to the list themselves, before
\* the orchestrating thread appends the result of the future
M_Collect_worker_appends ==
    /\ flow = "western" /\ pc = "fetch"
    /\ \E u \in pending : \E resp \in Responses(u) :
        /\ dealers' = dealers \o ParsedPage[resp] \o ParsedPage[resp]
        /\ pending' = pending \ {u}
        /\ fetched' = <<resp>>
        /\ pc' = IF pending' = {} THEN "dedupe" ELSE "fetch"
    /\ UNCHANGED <<flow, postal_pairs, idx, attempted, cache, ckpt, loaded,
                   dealer_urls, json_blobs, all_dealers, unique, export,
                   argv>>

\* lines 466-469: as_completed yields the futures in the order they finish
M_Collect ==
    /\ flow = "western" /\ pc = "fetch"
    /\ \E u \in pending : \E resp \in Responses(u) :
        /\ dealers' = dealers \o ParsedPage[resp]
        /\ pending' = pending \ {u}
        /\ fetched' = <<resp>>
        /\ pc' = IF pending' = {} THEN "dedupe" ELSE "fetch"
    /\ UNCHANGED <<flow, postal_pairs, idx, attempted, cache, ckpt, loaded,
                   dealer_urls, json_blobs, all_dealers, unique, export,
                   argv>>

\* buyers line 546, western line 471
Dedupe ==
    /\ pc = "dedupe"
    /\ unique' = IF flow = "buyers" THEN dedupe_dealers_B(all_dealers)
                 ELSE dedupe_dealers_W(dealers)
    /\ pc' = "write_excel"
    /\ UNCHANGED <<flow, postal_pairs, idx, attempted, cache, ckpt, loaded,
                   dealer_urls, json_blobs, dealers, all_dealers, pending,
                   export, argv, fetched>>

\* write_excel: one row per dealer, in order
write_excel(ds) ==
    [i \in 1..Len(ds) |->
        [Dealer_Name |-> ds[i].dealer_name, Country |-> ds[i].country,
         State |-> ds[i].state, Address |-> ds[i].address,
         Phone |-> ds[i].phone, Email |-> ds[i].email]]

WriteExcel ==
    /\ pc = "write_excel"
    /\ export' = write_excel(unique)
    /\ pc' = "done"
    /\ UNCHANGED <<flow, postal_pairs, idx, attempted, cache, ckpt, loaded,
                   dealer_urls, json_blobs, dealers, all_dealers, pending,
                   unique, argv, fetched>>

NextFetch ==
    \/ M_NoUrls
    \/ M_Submit
    \/ M_Collect
    \/ Dedupe
    \/ WriteExcel

\* the fetch stage after a harvest of one query that found the URL whose
\* page shows one of many addresses
InitGuess ==
    /\ flow = "western"
    /\ pc = "harvested"
    /\ argv = <<>>
    /\ postal_pairs = <<TEXT.CODE_US>>
    /\ attempted = postal_pairs
    /\ idx = 1
    /\ loaded = {}
    /\ dealer_urls = {GeoSite.url}
    /\ cache = json_dumps_sorted(dealer_urls)
    /\ ckpt = Checkpoint(dealer_urls)
    /\ json_blobs = <<>> /\ dealers = <<>> /\ all_dealers = <<>>
    /\ pending = {} /\ unique = <<>> /\ export = <<>> /\ fetched = <<>>

SpecGuess == InitGuess /\ [][M_Submit \/ M_Collect \/ Dedupe \/ WriteExcel]_vars

\* the harvest stage alone
SpecHarvest == InitHarvest /\ [][NextHarvest]_vars

----------------------------------------------------------------------------
(* JSON values of the JSON flow: a tagged tuple per type.  A mapping holds *)
(* its items in order, each a <<key, value>> pair with distinct keys.      *)

JStr(s) == <<"str", s>>
JNum(s) == <<"num", s>>       \* a number, with str(number) as its text
JNull == <<"null">>
JList(items) == <<"list", items>>
JDict(pairs) == <<"dict", pairs>>

lower(s) == [i \in 1..Len(s) |-> lower_ch(s[i])]

NAME_KEYS == <<<<"n","a","m","e">>,
    <<"d","e","a","l","e","r","N","a","m","e">>,
    <<"l","o","c","a","t","i","o","n","N","a","m","e">>,
    <<"c","o","m","p","a","n","y">>, <<"t","i","t","l","e">>>>
LINE1_KEYS == <<<<"a","d","d","r","e","s","s">>,
    <<"a","d","d","r","e","s","s","1">>, <<"s","t","r","e","e","t">>,
    <<"s","t","r","e","e","t","1">>, <<"l","i","n","e","1">>>>
LINE2_KEYS == <<<<"a","d","d","r","e","s","s","2">>,
    <<"s","t","r","e","e","t","2">>, <<"l","i","n","e","2">>>>
CITY_KEYS == <<<<"c","i","t","y">>, <<"t","o","w","n">>>>
STATE_KEYS == <<<<"s","t","a","t","e">>, <<"p","r","o","v","i","n","c","e">>,
    <<"r","e","g","i","o","n">>, <<"s","t","a","t","e","C","o","d","e">>,
    <<"p","r","o","v","i","n","c","e","C","o","d","e">>>>
POSTAL_KEYS == <<<<"z","i","p">>, <<"z","i","p","C","o","d","e">>,
    <<"p","o","s","t","a","l">>, <<"p","o","s","t","a","l","C","o","d","e">>,
    <<"p","o","s","t","c","o","d","e">>>>
COUNTRY_KEYS == <<<<"c","o","u","n","t","r","y">>,
    <<"c","o","u","n","t","r","y","C","o","d","e">>>>
PHONE_KEYS == <<<<"p","h","o","n","e">>,
    <<"p","h","o","n","e","N","u","m","b","e","r">>,
    <<"t","e","l","e","p","h","o","n","e">>, <<"t","e","l">>>>
LOOKS_NAME_KEYS == <<<<"n","a","m","e">>,
    <<"d","e","a","l","e","r","n","a","m","e">>,
    <<"l","o","c","a","t","i","o","n","n","a","m","e">>,
    <<"c","o","m","p","a","n","y">>, <<"t","i","t","l","e">>>>
LOOKS_ADDR_KEYS == <<<<"a","d","d","r","e","s","s">>,
    <<"a","d","d","r","e","s","s","1">>, <<"s","t","r","e","e","t">>,
    <<"s","t","r","e","e","t","1">>, <<"l","i","n","e","1">>>>

\* sep.join(parts)
RECURSIVE join(_, _)
join(sep, parts) ==
    IF parts = <<>> THEN <<>>
    ELSE IF Len(parts) = 1 THEN parts[1]
    ELSE parts[1] \o sep \o join(sep, Tail(parts))

NonEmpty(parts) == SelectSeq(parts, LAMBDA p : p # EMPTY)

dict_keys(d) == [i \in 1..Len(d[2]) |-> d[2][i][1]]
dict_values(d) == [i \in 1..Len(d[2]) |-> d[2][i][2]]

\* lines 308-318
looks_like_dealer_dict(d) ==
    LET keys == {lower(k) : k \in Range(dict_keys(d))}
        has_name == \E k \in Range(LOOKS_NAME_KEYS) : k \in keys
        has_addr == \/ \E k \in Range(LOOKS_ADDR_KEYS) : k \in keys
                    \/ /\ <<"c","i","t","y">> \in keys
                       /\ (<<"s","t","a","t","e">> \in keys \/ <<"p","r","o","v","i","n","c","e">> \in keys)
                       /\ (<<"z","i","p">> \in keys \/ <<"p","o","s","t","a","l">> \in keys \/ <<"p","o","s","t","a","l","c","o","d","e">> \in keys)
    IN  has_name /\ has_addr

\* lines 321-329: the mappings found, in the order they are appended
RECURSIVE walk_json(_)
RECURSIVE walk_each(_)
\* a walk that does not look inside a mapping it has collected
walk_json_shallow(obj) ==
    IF obj[1] = "dict"
    THEN (IF looks_like_dealer_dict(obj) THEN <<obj>> ELSE walk_each(dict_values(obj)))
    ELSE IF obj[1] = "list" THEN walk_each(obj[2])
    ELSE <<>>
walk_json(obj) ==
    IF obj[1] = "dict"
    THEN (IF looks_like_dealer_dict(obj) THEN <<obj>> ELSE <<>>) \o walk_each(dict_values(obj))
    ELSE IF obj[1] = "list" THEN walk_each(obj[2])
    ELSE <<>>
walk_each(items) ==
    IF items = <<>> THEN <<>> ELSE walk_json(Head(items)) \o walk_each(Tail(items))

\* lk = {k.lower(): k for k in d.keys()}; lk.get(nm): the position of the
\* last key whose lower-case form is nm, or 0
lk_get(d, nm) ==
    LET hits == {i \in 1..Len(d[2]) : lower(d[2][i][1]) = nm}
    IN  IF hits = {} THEN 0 ELSE CHOOSE i \in hits : \A j \in hits : j <= i

\* a lookup that returns the first value present, blank or not
get_any_unchecked(d, names) ==
    IF \E n \in Range(names) : lk_get(d, lower(n)) # 0
    THEN LET n == CHOOSE n \in Range(names) : lk_get(d, lower(n)) # 0
             val == d[2][lk_get(d, lower(n))][2]
         IN  IF val[1] \in {"str", "num"} THEN val[2] ELSE EMPTY
    ELSE EMPTY

\* lines 345-357
RECURSIVE get_any(_, _)
get_any(d, names) ==
    IF names = <<>> THEN EMPTY
    ELSE LET i == lk_get(d, lower(Head(names)))
             val == d[2][i][2]
         IN  IF i = 0 THEN get_any(d, Tail(names))
             ELSE IF val[1] \in {"str", "num"} /\ strip(val[2]) # EMPTY
             THEN strip(val[2])
             ELSE get_any(d, Tail(names))

\* a normalisation that compares the text as it is written
normalize_country_as_written(country) ==
    LET c0 == strip(country)
        c1 == IF c0 \in {<<"U","N","I","T","E","D"," ","S","T","A","T","E","S">>, <<"U","S","A">>} THEN US ELSE c0
        c2 == IF c1 \in {<<"C","A","N","A","D","A">>} THEN CA ELSE c1
    IN  IF c2 \notin {US, CA} THEN EMPTY ELSE c2

\* lines 377-384
normalize_country(country) ==
    LET c0 == upper(strip(country))
        c1 == IF c0 \in {<<"U","N","I","T","E","D"," ","S","T","A","T","E","S">>, <<"U","S","A">>} THEN US ELSE c0
        c2 == IF c1 \in {<<"C","A","N","A","D","A">>} THEN CA ELSE c1
    IN  IF c2 \notin {US, CA} THEN EMPTY ELSE c2

\* lines 386-393
normalize_state(state) ==
    IF Len(upper(strip(state))) = 2 THEN upper(strip(state)) ELSE strip(state)

\* lines 359-402 for one matched mapping: <<>> when it resolves no name
dealer_from_dict(d) ==
    LET name == get_any(d, NAME_KEYS)
        line1 == get_any(d, LINE1_KEYS)
        line2 == get_any(d, LINE2_KEYS)
        city == get_any(d, CITY_KEYS)
        state == get_any(d, STATE_KEYS)
        postal == get_any(d, POSTAL_KEYS)
        country == get_any(d, COUNTRY_KEYS)
        phone == get_any(d, PHONE_KEYS)
        city_state == IF city # EMPTY /\ state # EMPTY THEN city \o <<",", " ">> \o state
                      ELSE IF city # EMPTY THEN city ELSE state
        city_state_postal == normalize_whitespace(join(<<" ">>, NonEmpty(<<city_state, postal>>)))
        addr_parts == NonEmpty(<<line1, line2, city_state_postal>>)
        address == normalize_whitespace(join(<<",", " ">>, addr_parts))
    IN  IF name = EMPTY THEN <<>>
        ELSE <<Dealer(normalize_whitespace(name), normalize_country(country),
                      normalize_state(state), address, normalize_whitespace(phone))>>

RECURSIVE dealers_from_dicts(_)
dealers_from_dicts(raw_dicts) ==
    IF raw_dicts = <<>> THEN <<>>
    ELSE dealer_from_dict(Head(raw_dicts)) \o dealers_from_dicts(Tail(raw_dicts))

\* lines 332-404
extract_dealers_from_json_blobs(blobs) == dealers_from_dicts(walk_each(blobs))

\* a fix-up that gives every record the country of the query
fix_country_overwrite(d, country_hint) ==
    [d EXCEPT !.country = country_hint]

\* lines 524-534: the country hint fills an empty country
fix_country(d, country_hint) ==
    [d EXCEPT !.country = IF d.country # EMPTY THEN d.country ELSE country_hint]

----------------------------------------------------------------------------
(* Inputs of the JSON flow. *)

MaxBuyersQueries == 3

\* one dealer under two field-name shapes, without a country
BLOB_ACME ==
    JDict(<< <<KEY.name, JStr(TEXT.ACME)>>, <<KEY.address, JStr(TEXT.MAIN)>>,
             <<KEY.phone, JStr(TEXT.PHONE_DASH)>> >>)
BLOB_ACME_ALIASES ==
    JDict(<< <<KEY.dealerName, JStr(TEXT.ACME_PADDED)>>, <<KEY.Street1, JStr(TEXT.MAIN)>>,
             <<KEY.phoneNumber, JStr(TEXT.PHONE_DASH)>> >>)
\* another dealer, with a country
BLOB_NORTH ==
    JDict(<< <<KEY.name, JStr(TEXT.NORTH)>>, <<KEY.address, JStr(TEXT.LAKE)>>,
             <<KEY.country, JStr(TEXT.Canada)>> >>)
\* a mapping that looks like a dealer and resolves no name
BLOB_NO_NAME ==
    JDict(<< <<KEY.name, JStr(TEXT.BLANK)>>, <<KEY.title, JNull>>,
             <<KEY.company, JList(<<JStr(TEXT.ACME)>>)>>,
             <<KEY.address, JStr(TEXT.ELM)>>, <<KEY.phone, JStr(TEXT.PHONE_DASH)>>,
             <<KEY.country, JStr(TEXT.Usa)>> >>)
\* dealers nested in a response envelope
BLOB_ENVELOPE ==
    JDict(<< <<KEY.title, JStr(TEXT.RESULTS)>>, <<KEY.page, JNum(TEXT.ONE)>>,
             <<KEY.results, JList(<<BLOB_ACME, BLOB_NORTH>>)>> >>)

\* what the response handler may have captured when a search ends
BlobLists ==
    {<<>>, <<BLOB_ACME>>, <<BLOB_ACME_ALIASES>>, <<BLOB_NORTH>>, <<BLOB_NO_NAME>>,
     <<BLOB_ENVELOPE>>, <<BLOB_NO_NAME, BLOB_ACME_ALIASES>>}

\* one dealer under the field names the extractor accepts, in several
\* letter cases, with and without a street line: each payload holds the
\* mapping with the first name of every field and one of its variants
AliasVariants ==
    LET AliasBlob(n, l, c, s, z, p) ==
            JDict(<< <<n, JStr(TEXT.ACME)>> >>
                  \o (IF l = EMPTY THEN <<>> ELSE << <<l, JStr(TEXT.MAIN)>> >>)
                  \o << <<c, JStr(TEXT.NEWBURGH)>>, <<s, JStr(TEXT.NY)>>,
                        <<z, JStr(TEXT.CODE_US)>>, <<p, JStr(TEXT.PHONE_DASH)>> >>)
    IN  {<<AliasBlob(KEY.name, l, KEY.city, KEY.state, KEY.zip, KEY.phone),
           AliasBlob(n, l, c, s, z, p)>> :
            n \in {KEY.name, KEY.dealerName, KEY.COMPANY},
            l \in {EMPTY, KEY.address, KEY.Street1},
            c \in {KEY.city, KEY.Town},
            s \in {KEY.state, KEY.region, KEY.StateCode},
            z \in {KEY.zip, KEY.PostalCode, KEY.postcode},
            p \in {KEY.phone, KEY.phoneNumber, KEY.TEL}}

\* a mapping with one of five name parts and one of twelve address parts,
\* captured at the top of a payload, in a sequence, in an envelope, inside
\* a mapping that is itself a dealer, three levels down, and twice
NestedPayloads ==
    LET Pairs(ks, text) == [i \in 1..Len(ks) |-> <<ks[i], JStr(text)>>]
        NameParts == {<<>>, <<KEY.name>>, <<KEY.dealerName>>, <<KEY.COMPANY>>, <<KEY.title>>}
        AddrParts == {<<>>, <<KEY.address>>, <<KEY.Street1>>, <<KEY.city>>,
                      <<KEY.city, KEY.state>>, <<KEY.city, KEY.zip>>,
                      <<KEY.state, KEY.zip>>, <<KEY.city, KEY.state, KEY.zip>>,
                      <<KEY.city, KEY.province, KEY.PostalCode>>,
                      <<KEY.city, KEY.region, KEY.postal>>,
                      <<KEY.city, KEY.state, KEY.postcode>>,
                      <<KEY.Town, KEY.state, KEY.zip>>}
        Mappings == {JDict(Pairs(n, TEXT.NORTH) \o Pairs(a, TEXT.NEWBURGH)) :
                        n \in NameParts, a \in AddrParts}
        Contexts(m) ==
            {<<m>>,
             <<JList(<<JStr(TEXT.RESULTS), m>>)>>,
             <<JDict(<< <<KEY.page, JNum(TEXT.ONE)>>, <<KEY.results, JList(<<BLOB_NORTH, m>>)>> >>)>>,
             <<JDict(BLOB_ACME[2] \o << <<KEY.data, m>> >>)>>,
             <<JDict(<< <<KEY.data, JList(<<JList(<<JDict(<< <<KEY.results, m>> >>)>>)>>)>> >>)>>,
             <<JList(<<m, m>>), JNull>>}
    IN  UNION {Contexts(m) : m \in Mappings}

\* payloads for the lookup of the fields. Either a dealer whose name is
\* under two keys that differ in letter case only, in both orders, each
\* with a text, a blank, a number, null or a sequence, with and without a
\* title to fall back on; or two dealers, each with a country text, a
\* number or null under one of the keys of the country, or with a blank
\* country and a country code
FieldPayloads ==
    LET Values == {JStr(TEXT.ACME), JStr(TEXT.ACME_PADDED), JStr(TEXT.BLANK),
                   JNum(TEXT.ONE), JNull, JList(<<JStr(TEXT.ACME)>>)}
        Titles == {<<>>, << <<KEY.title, JStr(TEXT.NORTH)>> >>}
        CasePayloads ==
            {<<JDict(<< <<k[1], v>>, <<k[2], w>> >> \o t
                     \o << <<KEY.address, JStr(TEXT.MAIN)>> >>)>> :
                k \in {<<KEY.COMPANY, KEY.company>>, <<KEY.company, KEY.COMPANY>>},
                v \in Values, w \in Values, t \in Titles}
        Countries == {JStr(t) : t \in {US, CA, TEXT.Usa, TEXT.Canada, TEXT.MX,
                          TEXT.us_lower, TEXT.USA_PADDED, TEXT.United_States,
                          TEXT.UNITED_STATES_WIDE, TEXT.United_States_of_America,
                          TEXT.ca_lower, TEXT.CANADA_PADDED, TEXT.CAN,
                          TEXT.Mexico, TEXT.U_S, TEXT.BLANK}}
                     \cup {JNum(TEXT.ONE), JNull}
        CountryPairs(v) ==
            {<< <<KEY.country, v>> >>, << <<KEY.Country, v>> >>,
             << <<KEY.countryCode, v>> >>,
             << <<KEY.country, JStr(TEXT.BLANK)>>, <<KEY.countryCode, v>> >>}
        Blob(name, c) == JDict(<< <<KEY.name, JStr(name)>>, <<KEY.address, JStr(TEXT.MAIN)>> >> \o c)
        CountryPayloads ==
            {<<JList(<<Blob(TEXT.ACME, c), Blob(TEXT.NORTH, d)>>)>> :
                c \in UNION {CountryPairs(v) : v \in Countries},
                d \in CountryPairs(JStr(TEXT.Canada)) \cup {<<>>}}
    IN  CasePayloads \cup CountryPayloads

\* extract_dealers_from_json_blobs on every list of the universes, computed once
ExtractedDealers ==
    [blobs \in BlobLists \cup AliasVariants \cup NestedPayloads \cup FieldPayloads |->
        extract_dealers_from_json_blobs(blobs)]

\* the rows of the postal-code file that read_postal_codes keeps
PairUniverse == {<<US, TEXT.CODE_US>>, <<CA, TEXT.CODE_CA>>}

----------------------------------------------------------------------------
(* main of the JSON flow. *)

\* main has validated the arguments and read a non-empty postal-code list
InitBuyers ==
    /\ flow = "buyers"
    /\ pc = "open_locator"
    /\ argv = <<>>
    /\ postal_pairs \in SeqsUpTo(PairUniverse, MaxBuyersQueries) \ {<<>>}
    /\ cache = CacheFile("absent", <<>>)
    /\ ckpt = NoCheckpoint
    /\ InitCommon

\* lines 461-501: the browser is launched and the postal input is looked
\* for once; get_postal_input raises RuntimeError when no selector matches
B_OpenLocator ==
    /\ flow = "buyers" /\ pc = "open_locator"
    /\ \E found \in BOOLEAN : pc' = IF found THEN "loop" ELSE "crashed"
    /\ UNCHANGED <<flow, postal_pairs, idx, attempted, cache, ckpt, loaded,
                   dealer_urls, json_blobs, dealers, all_dealers, pending,
                   unique, export, argv, fetched>>

\* lines 503-520: the captured payloads are cleared, the code is entered
\* and the search triggered; the handler captures the responses
B_SearchOk ==
    /\ flow = "buyers" /\ pc = "loop" /\ idx < Len(postal_pairs)
    /\ attempted' = Append(attempted, postal_pairs[idx + 1])
    /\ json_blobs' \in BlobLists
    /\ pc' = "extract"
    /\ UNCHANGED <<flow, postal_pairs, idx, cache, ckpt, loaded,
                   dealer_urls, dealers, all_dealers, pending, unique,
                   export, argv, fetched>>

\* a handler that searches the failed query once more
B_SearchFails_retry ==
    /\ flow = "buyers" /\ pc = "loop" /\ idx < Len(postal_pairs)
    /\ Len(attempted) <= Len(postal_pairs)
    /\ attempted' = Append(attempted, postal_pairs[idx + 1])
    /\ json_blobs' \in {<<>>, <<BLOB_ACME>>}
    /\ UNCHANGED <<flow, pc, postal_pairs, idx, cache, ckpt, loaded,
                   dealer_urls, dealers, all_dealers, pending, unique,
                   export, argv, fetched>>

\* lines 505-517: PlaywrightTimeoutError or another Exception while the
\* code is entered: a warning, then continue; what was captured until then
\* stays in json_blobs until the next iteration clears it
B_SearchFails ==
    /\ flow = "buyers" /\ pc = "loop" /\ idx < Len(postal_pairs)
    /\ attempted' = Append(attempted, postal_pairs[idx + 1])
    /\ json_blobs' \in {<<>>, <<BLOB_ACME>>}
    /\ idx' = idx + 1
    /\ UNCHANGED <<flow, pc, postal_pairs, cache, ckpt, loaded,
                   dealer_urls, dealers, all_dealers, pending, unique,
                   export, argv, fetched>>

RECURSIVE fix_all(_, _)
fix_all(ds, country_hint) ==
    IF ds = <<>> THEN <<>>
    ELSE <<fix_country(Head(ds), country_hint)>> \o fix_all(Tail(ds), country_hint)

\* lines 522-538: dealers holds the list called fixed in the source
B_Extract ==
    /\ flow = "buyers" /\ pc = "extract"
    /\ LET country_hint == postal_pairs[idx + 1][1]
           fixed == fix_all(ExtractedDealers[json_blobs], country_hint)
       IN  /\ dealers' = fixed
           /\ all_dealers' = all_dealers \o fixed
    /\ idx' = idx + 1
    /\ pc' = "loop"
    /\ UNCHANGED <<flow, postal_pairs, attempted, cache, ckpt, loaded,
                   dealer_urls, json_blobs, pending, unique, export, argv,
                   fetched>>

\* lines 540-544: the loop is over and the browser is closed
B_Close ==
    /\ flow = "buyers" /\ pc = "loop" /\ idx = Len(postal_pairs)
    /\ pc' = "dedupe"
    /\ UNCHANGED <<flow, postal_pairs, idx, attempted, cache, ckpt, loaded,
                   dealer_urls, json_blobs, dealers, all_dealers, pending,
                   unique, export, argv, fetched>>

\* lines 550-555: KeyboardInterrupt in the query loop; the script exits 130
B_Interrupt ==
    /\ flow = "buyers" /\ pc \in {"loop", "extract"}
    /\ pc' = "interrupted"
    /\ UNCHANGED <<flow, postal_pairs, idx, attempted, cache, ckpt, loaded,
                   dealer_urls, json_blobs, dealers, all_dealers, pending,
                   unique, export, argv, fetched>>

NextBuyers ==
    \/ B_OpenLocator
    \/ B_SearchOk
    \/ B_SearchFails
    \/ B_Extract
    \/ B_Close
    \/ B_Interrupt
    \/ Dedupe
    \/ WriteExcel

\* the JSON flow from the launch of the browser to the export
SpecBuyers == InitBuyers /\ [][NextBuyers]_vars

\* the end of a query whose payload holds a dealer twice, under two sets of
\* field names: the extraction, and the rest of main
InitExtract ==
    /\ flow = "buyers"
    /\ pc = "extract"
    /\ argv = <<>>
    /\ postal_pairs \in {<<p>> : p \in PairUniverse}
    /\ cache = CacheFile("absent", <<>>)
    /\ ckpt = NoCheckpoint
    /\ idx = 0 /\ loaded = {} /\ dealer_urls = {}
    /\ attempted = postal_pairs
    /\ json_blobs \in AliasVariants
    /\ dealers = <<>> /\ all_dealers = <<>> /\ pending = {}
    /\ unique = <<>> /\ export = <<>> /\ fetched = <<>>

SpecExtract == InitExtract /\ [][B_Extract \/ B_Close \/ Dedupe \/ WriteExcel]_vars

\* the end of a query whose payload is one of the nested payloads, one
\* with keys that differ in letter case or one with country texts
InitPayload ==
    /\ flow = "buyers"
    /\ pc = "extract"
    /\ argv = <<>>
    /\ postal_pairs \in {<<p>> : p \in PairUniverse}
    /\ cache = CacheFile("absent", <<>>)
    /\ ckpt = NoCheckpoint
    /\ idx = 0 /\ loaded = {} /\ dealer_urls = {}
    /\ attempted = postal_pairs
    /\ json_blobs \in NestedPayloads \cup FieldPayloads
    /\ dealers = <<>> /\ all_dealers = <<>> /\ pending = {}
    /\ unique = <<>> /\ export = <<>> /\ fetched = <<>>

SpecPayload == InitPayload /\ [][B_Extract \/ B_Close \/ Dedupe \/ WriteExcel]_vars

----------------------------------------------------------------------------
(* dedupe_dealers on its own: the records are those the two parsers build, *)
(* from mappings (JSON flow) and from pages (URL flow) that show one       *)
(* dealer under several spellings, and other dealers.                      *)

DealerBlob(name, street, state, phone, country) ==
    JDict(<< <<KEY.name, JStr(name)>>, <<KEY.address, JStr(street)>>,
             <<KEY.state, JStr(state)>>, <<KEY.phone, JStr(phone)>>,
             <<KEY.country, JStr(country)>> >>)

DedupeBlobs ==
    {DealerBlob(TEXT.NAME_OBRIEN, TEXT.STREET_MAIN, TEXT.STATE_NEW_YORK, TEXT.PHONE_DASH, US),
     DealerBlob(TEXT.NAME_OBRIEN_UPPER, TEXT.STREET_MAIN, TEXT.STATE_NEW_YORK, TEXT.PHONE_DASH, US),
     DealerBlob(TEXT.NAME_OBRIEN, TEXT.STREET_MAIN_UPPER, TEXT.STATE_NEW_YORK, TEXT.PHONE_DASH, US),
     DealerBlob(TEXT.NAME_OBRIEN, TEXT.STREET_MAIN, TEXT.STATE_NEW_YORK_UPPER, TEXT.PHONE_DASH, US),
     DealerBlob(TEXT.NAME_OBRIEN, TEXT.STREET_MAIN, TEXT.STATE_NEW_YORK, TEXT.PHONE_PLAIN, US),
     DealerBlob(TEXT.NAME_OBRIEN, TEXT.STREET_MAIN, TEXT.STATE_NEW_YORK, TEXT.PHONE_OTHER, US),
     DealerBlob(TEXT.NAME_OBRIEN, TEXT.STREET_MAIN, TEXT.STATE_NEW_YORK, TEXT.PHONE_DASH, TEXT.Canada),
     DealerBlob(TEXT.ACME, TEXT.STREET_MAIN, TEXT.STATE_NEW_YORK, TEXT.PHONE_DASH, US)}

DedupePages ==
    {Response(FALSE, 200, <<TEXT.NAME_OBRIEN>>, TEXT.ADDR_MAIN, TEXT.PHONE_DASH, <<>>),
     Response(FALSE, 200, <<TEXT.NAME_OBRIEN_UPPER>>, TEXT.ADDR_MAIN, TEXT.PHONE_DASH, <<>>),
     Response(FALSE, 200, <<TEXT.NAME_OBRIEN>>, TEXT.ADDR_MAIN_LOWER, TEXT.PHONE_DASH, <<>>),
     Response(FALSE, 200, <<TEXT.NAME_OBRIEN>>, TEXT.ADDR_MAIN_NO_COMMA, TEXT.PHONE_DASH, <<>>),
     Response(FALSE, 200, <<TEXT.NAME_OBRIEN>>, TEXT.ADDR_MAIN, TEXT.PHONE_OTHER, <<>>),
     Response(FALSE, 200, <<TEXT.NAME_OBRIEN>>, TEXT.ADDR_MAIN_TORONTO, TEXT.PHONE_DASH, <<>>),
     Response(FALSE, 200, <<TEXT.H1_ACME>>, TEXT.ADDR_MAIN, TEXT.PHONE_DASH, <<>>)}

\* the records extract_dealers_from_json_blobs and parse_western_dealer_page
\* build from them
DealerUniverse_B == UNION {Range(extract_dealers_from_json_blobs(<<b>>)) : b \in DedupeBlobs}
DealerUniverse_W == UNION {Range(parse_western_dealer_page(r)) : r \in DedupePages}

\* the list handed to dedupe_dealers
Input == IF flow = "buyers" THEN all_dealers ELSE dealers

InitDedupe ==
    /\ pc = "dedupe"
    /\ postal_pairs = <<>>
    /\ cache = CacheFile("absent", <<>>)
    /\ ckpt = NoCheckpoint
    /\ idx = 0 /\ attempted = <<>> /\ loaded = {} /\ dealer_urls = {}
    /\ json_blobs = <<>> /\ pending = {} /\ unique = <<>> /\ export = <<>>
    /\ argv = <<>> /\ fetched = <<>>
    /\ \/ /\ flow = "buyers"
          /\ all_dealers \in SeqsUpTo(DealerUniverse_B, MaxDedupeLen)
          /\ dealers = <<>>
       \/ /\ flow = "western"
          /\ dealers \in SeqsUpTo(DealerUniverse_W, MaxDedupeLen)
          /\ all_dealers = <<>>

SpecDedupe == InitDedupe /\ [][Dedupe \/ WriteExcel]_vars

----------------------------------------------------------------------------
(* Both scripts, from the start of main's work to the export. *)

Init == InitHarvest \/ InitBuyers
Next == NextHarvest \/ NextFetch \/ NextBuyers
Spec == Init /\ [][Next]_vars

\* the executor runs every submitted future and as_completed yields each
\* finished one; dedupe_dealers and write_excel follow without waiting
SpecFair ==
    Spec /\ WF_vars(M_Collect) /\ WF_vars(Dedupe) /\ WF_vars(WriteExcel)

----------------------------------------------------------------------------
(* The start of both mains: the arguments are checked and the postal-code  *)
(* file is read (western lines 427-432, buyers lines 449-454).             *)

MaxRows == 3

\* `if limit: out = out[:limit]`; a limit is <<>> for None and <<n>> for
\* the integer n, and s[:k] counts a negative k from the end of the list
truncate(s, limit) ==
    LET slice_to(k) ==
            IF k >= 0 THEN SubSeq(s, 1, IF k < Len(s) THEN k ELSE Len(s))
            ELSE SubSeq(s, 1, IF Len(s) + k > 0 THEN Len(s) + k ELSE 0)
    IN  IF limit # <<>> /\ limit[1] # 0 THEN slice_to(limit[1]) ELSE s

\* a filter that keeps the rows of every country
keep_us_ca_all(rows) == rows

\* df[df["country"].isin(["US", "CA"])]; rows are the rows of the frame
\* read_csv(dtype=str).fillna("") delivers
keep_us_ca(rows) == SelectSeq(rows, LAMBDA r : r.country \in {US, CA})

\* western read_postal_codes, past the column check
read_postal_codes_W(rows, limit) ==
    LET df == keep_us_ca(rows)
        codes == [i \in 1..Len(df) |-> strip(df[i].postal_code)]
        c == [i \in 1..Len(codes) |-> upper(strip(codes[i]))]
        cleaned == SelectSeq(c, LAMBDA x : x # EMPTY)
    IN  truncate(cleaned, limit)

\* buyers read_postal_codes, past the column check
read_postal_codes_B(rows, limit) ==
    LET df == keep_us_ca(rows)
        pairs == [i \in 1..Len(df) |->
                    <<upper(strip(df[i].country)),
                      upper(strip(strip(df[i].postal_code)))>>]
        out == SelectSeq(pairs, LAMBDA x : x[2] # EMPTY)
    IN  truncate(out, limit)

\* the rows of postal-code files: a US code, a Canadian code as typed, a
\* row of another country and a row without a code
RowUniverse ==
    {[country |-> US, postal_code |-> TEXT.CODE_US],
     [country |-> CA, postal_code |-> TEXT.CODE_CA_CELL],
     [country |-> TEXT.MX, postal_code |-> TEXT.CODE_MX],
     [country |-> US, postal_code |-> TEXT.BLANK]}

\* command lines and files: --min-delay and --max-delay (in seconds), --limit
\* and the header and rows of the file
ArgUniverse ==
    [min_delay : {-1, 0, 1}, max_delay : {0, 1},
     limit : {<<>>} \cup {<<n>> : n \in -1..MaxRows},
     columns : {{KEY.country, KEY.postal_code}, {KEY.country}, {KEY.postal_code}},
     rows : SeqsUpTo(RowUniverse, MaxRows)]

InitStart ==
    /\ flow \in {"buyers", "western"}
    /\ pc = "start"
    /\ postal_pairs = <<>>
    /\ cache = CacheFile("absent", <<>>)
    /\ ckpt = NoCheckpoint
    /\ argv \in {<<a>> : a \in ArgUniverse}
    /\ InitCommon

\* a step that reads the file without checking the delays
M_ReadPostalCodes_unchecked ==
    /\ pc = "start"
    /\ IF ~({KEY.country, KEY.postal_code} \subseteq argv[1].columns)
       THEN pc' = "config_error" /\ UNCHANGED postal_pairs
       ELSE /\ pc' = "read"
            /\ postal_pairs' =
                 IF flow = "buyers"
                 THEN read_postal_codes_B(argv[1].rows, argv[1].limit)
                 ELSE read_postal_codes_W(argv[1].rows, argv[1].limit)
    /\ UNCHANGED <<flow, idx, attempted, cache, ckpt, loaded, dealer_urls,
                   json_blobs, dealers, all_dealers, pending, unique, export,
                   argv, fetched>>

\* western lines 427-430, buyers lines 449-452: SystemExit on the delays,
\* else read_postal_codes, which raises ValueError when a column is missing
M_ReadPostalCodes ==
    /\ pc = "start"
    /\ IF \/ argv[1].min_delay < 0 \/ argv[1].max_delay < argv[1].min_delay
          \/ ~({KEY.country, KEY.postal_code} \subseteq argv[1].columns)
       THEN pc' = "config_error" /\ UNCHANGED postal_pairs
       ELSE /\ pc' = "read"
            /\ postal_pairs' =
                 IF flow = "buyers"
                 THEN read_postal_codes_B(argv[1].rows, argv[1].limit)
                 ELSE read_postal_codes_W(argv[1].rows, argv[1].limit)
    /\ UNCHANGED <<flow, idx, attempted, cache, ckpt, loaded, dealer_urls,
                   json_blobs, dealers, all_dealers, pending, unique, export,
                   argv, fetched>>

\* western lines 431-444, buyers lines 453-461: SystemExit on an empty
\* list, else main goes on to the cache and the browser; the arguments play
\* no further part in the model
M_CheckPostalCodes ==
    /\ pc = "read"
    /\ IF postal_pairs = <<>>
       THEN pc' = "config_error" /\ UNCHANGED argv
       ELSE /\ pc' = IF flow = "buyers" THEN "open_locator" ELSE "load_cache"
            /\ argv' = <<>>
    /\ UNCHANGED <<flow, postal_pairs, idx, attempted, cache, ckpt, loaded,
                   dealer_urls, json_blobs, dealers, all_dealers, pending,
                   unique, export, fetched>>

\* both scripts from the command line on, run without a cache file
SpecRun == InitStart /\ [][M_ReadPostalCodes \/ M_CheckPostalCodes \/ Next]_vars

----------------------------------------------------------------------------
(* Properties of dedupe_dealers, checked under SpecDedupe. *)

\* the Dedup Key and dedupe_dealers of the script that runs
key(d) == IF flow = "buyers" THEN key_B(d) ELSE key_W(d)
dedupe_dealers(ds) ==
    IF flow = "buyers" THEN dedupe_dealers_B(ds) ELSE dedupe_dealers_W(ds)

Keys(ds) == {key(d) : d \in Range(ds)}
Deduped == pc \in {"write_excel", "done"}

\* C1: dedupe_dealers is idempotent and shrinking in both flows: deduping
\* its output again changes nothing, the output is no longer than the
\* input, and every key of the output is the key of some input record.
C1_IdempotentShrinking ==
    Deduped =>
        /\ dedupe_dealers(unique) = unique
        /\ Len(unique) <= Len(Input)
        /\ Keys(unique) \subseteq Keys(Input)

\* a list with three records of one key and the single record kept of it
C1_Witness ==
    /\ pc = "done" /\ flow = "buyers"
    /\ Len(Input) = 3 /\ Cardinality(Keys(Input)) = 1
    /\ Cardinality(Range(Input)) = 3
    /\ Len(unique) = 1

\* the positions of the input that hold the first record of their key, and
\* the k-th of them
FirstOfKey == {i \in 1..Len(Input) : \A j \in 1..(i - 1) : key(Input[j]) # key(Input[i])}
KthFirst(k) == CHOOSE i \in FirstOfKey : Cardinality({j \in FirstOfKey : j <= i}) = k

\* C2: the output of dedupe_dealers is a subsequence of the input (records
\* unchanged, order kept), no two output records share a Dedup Key, and for
\* every key of the input the output holds exactly the earliest input
\* record with that key.
C2_FirstSeenOrder ==
    Deduped =>
        /\ Len(unique) = Cardinality(FirstOfKey)
        /\ \A k \in 1..Len(unique) : unique[k] = Input[KthFirst(k)]
        /\ \A i, j \in 1..Len(unique) : i # j => key(unique[i]) # key(unique[j])
        /\ \A i \in 1..Len(Input) :
              \E k \in 1..Len(unique) :
                  /\ key(unique[k]) = key(Input[i])
                  /\ unique[k] = Input[CHOOSE m \in FirstOfKey : key(Input[m]) = key(Input[i])]

\* a later record repeats the key of the first under another spelling, with
\* a record of another key between them
C2_Witness ==
    /\ pc = "done" /\ flow = "western"
    /\ Len(Input) = 3
    /\ key(Input[1]) = key(Input[3]) /\ Input[1] # Input[3]
    /\ key(Input[2]) # key(Input[1])
    /\ unique = <<Input[1], Input[2]>>

\* a string without letter case and without the characters outside [A-Z0-9]
AlphaNum == LowerSet \cup Digits
IsAlphaNum(c) == c \in AlphaNum
fold(s) == SelectSeq([i \in 1..Len(s) |-> lower_ch(s[i])], IsAlphaNum)

\* two records that differ only by letter case or punctuation in the fields
\* the claim names
SameButSpelling(a, b) ==
    /\ a.country = b.country
    /\ fold(a.state) = fold(b.state)
    /\ fold(a.address) = fold(b.address)
    /\ fold(a.dealer_name) = fold(b.dealer_name)
    /\ flow = "buyers" => fold(a.phone) = fold(b.phone)

----------------------------------------------------------------------------
(* Properties of the JSON flow, checked under SpecBuyers. *)

SameDealer(r, s) == r.Dealer_Name = s.Dealer_Name /\ r.Address = s.Address

\* C4: a dealer (same name, same address) that several postal-code queries
\* surface, under whatever field names and country hints, is exported
\* exactly once; when queries 1 and 2 of three surface one dealer and query
\* 3 another, the export has exactly 2 rows.
C4_SurfacedOnce ==
    pc = "done" =>
        /\ \A i, j \in 1..Len(export) : SameDealer(export[i], export[j]) => i = j
        /\ ( /\ Len(postal_pairs) = 3 /\ Len(all_dealers) = 3
             /\ all_dealers[1].dealer_name = all_dealers[2].dealer_name
             /\ all_dealers[1].address = all_dealers[2].address
             /\ all_dealers[3].dealer_name # all_dealers[1].dealer_name )
           => Len(export) = 2

----------------------------------------------------------------------------
(* Properties of both flows, checked under Spec. *)

Named(ds) == \A i \in 1..Len(ds) : ds[i].dealer_name # EMPTY

\* C5: in every reachable state of both flows every Dealer of the per-query
\* list, of the accumulated list, of the dedupe output and of the export
\* has a non-empty dealer_name; no run has failed once candidates are being
\* turned into records, so a candidate without a name is dropped silently.
C5_NoEmptyName ==
    /\ Named(dealers) /\ Named(all_dealers) /\ Named(unique)
    /\ \A i \in 1..Len(export) : export[i].Dealer_Name # EMPTY
    /\ pc = "crashed" => dealers = <<>> /\ all_dealers = <<>> /\ pending = {}

\* a query captured a nameless mapping that carries an address, a phone and
\* a country, and a named one: only the named one became a record and the
\* loop goes on
C5_Witness ==
    /\ flow = "buyers" /\ pc = "loop" /\ idx = 1
    /\ json_blobs = <<BLOB_NO_NAME, BLOB_ACME_ALIASES>>
    /\ Len(dealers) = 1 /\ all_dealers = dealers

\* a step of the query loop that skips the query: the search was started
\* and the loop is back at its head
QuerySkipped == pc = "loop" /\ pc' = "loop" /\ attempted' # attempted

LoopEnded == pc \in {"harvested", "exit_no_urls", "fetch", "dedupe", "write_excel", "done"}

C10_InOrder ==
    /\ Len(attempted) <= Len(postal_pairs)
    /\ \A i \in 1..Len(attempted) : attempted[i] = postal_pairs[i]
    /\ LoopEnded => attempted = postal_pairs

\* C10: in both flows a query whose search raises is skipped: it adds no
\* record and no URL, the accumulated records, the discovered URLs and the
\* cache stay as they were, the loop goes on with the next query, and every
\* query is attempted, in order, by the time the loop ends.
C10_QueryErrorSkipped ==
    /\ []C10_InOrder
    /\ [][QuerySkipped =>
            /\ idx' = idx + 1
            /\ all_dealers' = all_dealers
            /\ dealer_urls' = dealer_urls
            /\ cache' = cache]_vars

\* the search of query 25 failed, so that no cache was written at the
\* multiple of 25, and the search of query 26 has been started
C10_Witness ==
    /\ flow = "western" /\ pc = "collect"
    /\ idx = CheckpointEvery /\ Len(attempted) = CheckpointEvery + 1
    /\ ~ckpt.has /\ dealer_urls # {}

----------------------------------------------------------------------------
(* Properties of the resumable cache, checked under SpecHarvest. *)

\* C6: a set of strings written as a checkpoint is the set a load of the
\* cache yields: the run that starts from a cache an earlier run wrote has
\* exactly that set in memory before its first query, and so would a run
\* that started from any checkpoint of this run.
C6_CacheRoundTrip ==
    (ckpt.has /\ ckpt.set = Urls(ckpt.set)) =>
        /\ load_cache(cache) = ckpt.set
        /\ pc = "open_locator" => dealer_urls = ckpt.set

\* the cache of an earlier run held three URLs and has been loaded
C6_Witness ==
    /\ pc = "open_locator"
    /\ ckpt = Checkpoint({URL_A, URL_B, URL_OLD})
    /\ Cardinality(dealer_urls) = 3

C7_Persisted ==
    /\ ckpt.has => Urls(ckpt.set) \subseteq persisted(cache)
    /\ pc = "harvested" => loaded \subseteq dealer_urls

C8_InterruptPersists ==
    (pc = "interrupted" /\ (cache.kind = "absent" \/ ckpt.has)) =>
        persisted(cache) = dealer_urls

\* a cache file whose content is a JSON array of strings
ArrayOfStrings(file) ==
    file.kind = "array" /\ \A i \in 1..Len(file.items) : isinstance_str(file.items[i])

\* C9: when the cache file is absent or its content is no JSON array of
\* strings, the load raises no error and the query loop begins with an
\* empty discovered-URL set.
C9_CorruptCacheStartsEmpty ==
    (pc = "open_locator" /\ ~ArrayOfStrings(cache)) => dealer_urls = {}

----------------------------------------------------------------------------
(* The input element of the locator page. *)

\* C11: a failure to find the postal-code input element is not fatal: the
\* step that looks for the input never ends the run, in either flow; the
\* run goes on to its queries.
C11_InputNotFoundNonFatal ==
    [][pc = "open_locator" => pc' = "loop"]_vars

----------------------------------------------------------------------------
(* The detail-fetch stage of the URL flow. *)

\* the request raised a network error or the status is not 200
FetchFailed(r) == r.raises \/ r.status # 200

\* the page was delivered and names a dealer
ParsedOk(r) ==
    ~FetchFailed(r) /\ r.h1 # <<>> /\ normalize_whitespace(r.h1[1]) # EMPTY

\* while futures are collected some are pending, all of them URLs of the
\* harvest; afterwards none is
C12_AllFetched ==
    flow = "western" =>
        /\ pc = "fetch" => (pending # {} /\ pending \subseteq dealer_urls)
        /\ pc \in {"dedupe", "write_excel", "done"} => pending = {}

\* the collection of one future
C12_CollectStep ==
    (pc = "fetch" /\ fetched' # <<>> /\ pending' # pending) =>
        /\ \E u \in pending : pending' = pending \ {u}
        /\ pc' = IF pending' = {} THEN "dedupe" ELSE "fetch"
        /\ FetchFailed(fetched'[1]) => dealers' = dealers
        /\ ParsedOk(fetched'[1]) =>
             /\ Len(dealers') = Len(dealers) + 1
             /\ SubSeq(dealers', 1, Len(dealers)) = dealers
             /\ dealers'[Len(dealers')].dealer_name =
                    normalize_whitespace(fetched'[1].h1[1])

\* C12: the fetches of the detail pages are independent: a URL whose request
\* raises a network error or answers with a status other than 200 adds no
\* record and raises nothing in the collecting thread, every other URL stays
\* to be fetched, each page that parses adds its record after those already
\* collected, and the collection goes on until no future is pending, so that
\* dedupe and the export are reached.
C12_FetchFailuresIndependent ==
    /\ []C12_AllFetched
    /\ [][C12_CollectStep]_vars
    /\ (pc = "fetch") ~> (pc = "done")

\* a run that has exported one record although a request raised, or answered
\* with another status than 200, for another URL
C12_Witness ==
    /\ flow = "western" /\ pc = "done"
    /\ Cardinality(dealer_urls) >= 2
    /\ Len(dealers) = 1 /\ Len(export) = 1
    /\ fetched # <<>> /\ FetchFailed(fetched[1])

\* the record lists the other completion orders of the same futures build:
\* each record comes from one future, and as_completed may yield the futures
\* in any order
CompletionOrders(ds) ==
    {[i \in 1..Len(ds) |-> ds[f[i]]] : f \in Permutations(1..Len(ds))}

\* C13: the result of the detail-fetch stage does not depend on the order in
\* which the fetches complete: for the same URLs and the same page contents
\* every completion order exports the same set of rows.
C13_OrderIndependent ==
    (flow = "western" /\ pc = "done") =>
        \A ds \in CompletionOrders(dealers) :
            Range(write_excel(dedupe_dealers_W(ds))) = Range(export)

----------------------------------------------------------------------------
(* Properties of the start of main, checked under SpecRun. *)

\* the configuration errors: the delays, the columns of the file, and a file
\* without a usable row
BadDelays(a) == a.min_delay < 0 \/ a.max_delay < a.min_delay
MissingColumn(a) == ~({KEY.country, KEY.postal_code} \subseteq a.columns)
Usable(r) == r.country \in {US, CA} /\ strip(r.postal_code) # EMPTY
NoQueries(a) == \A i \in 1..Len(a.rows) : ~Usable(a.rows[i])

\* no browser was launched, no page loaded, no search made, no URL fetched
NoNetworkActivity ==
    /\ idx = 0 /\ attempted = <<>> /\ json_blobs = <<>>
    /\ dealer_urls = {} /\ pending = {} /\ fetched = <<>>
    /\ dealers = <<>> /\ all_dealers = <<>> /\ export = <<>>

\* a run with bad delays or a missing column never gets past the start, a
\* run without a usable row never past the reading of the file, and a run
\* that ended with an error has touched nothing
C14_ErrorsStayAtStart ==
    /\ argv # <<>> /\ (BadDelays(argv[1]) \/ MissingColumn(argv[1]))
         => pc \in {"start", "config_error"}
    /\ argv # <<>> /\ NoQueries(argv[1]) => pc \in {"start", "read", "config_error"}
    /\ pc \in {"start", "read", "config_error"} => (argv # <<>> /\ NoNetworkActivity)

\* the steps of main with a configuration error end the run
C14_ErrorEndsRun ==
    /\ pc = "start" /\ (BadDelays(argv[1]) \/ MissingColumn(argv[1]))
         => pc' = "config_error"
    /\ pc = "read" /\ NoQueries(argv[1]) => pc' = "config_error"
    /\ pc # "config_error"

\* C14: configuration errors abort the run before any network activity, in
\* both flows: when the file lacks the country or the postal_code column,
\* when no row is left after filtering, or when min_delay < 0 or max_delay <
\* min_delay, the run ends with an error and launches no browser, loads no
\* page, makes no search and fetches no URL.
C14_ConfigErrorsAbortEarly ==
    /\ []C14_ErrorsStayAtStart
    /\ [][C14_ErrorEndsRun]_vars

\* a run ended with an error: its delays and columns are right, and its file
\* has rows, but none is usable
C14_Witness ==
    /\ pc = "config_error"
    /\ ~BadDelays(argv[1]) /\ ~MissingColumn(argv[1])
    /\ Len(argv[1].rows) = MaxRows /\ NoQueries(argv[1])
    /\ NoNetworkActivity

\* the entry read_postal_codes returns for a usable row: the code trimmed
\* and upper-cased, in the JSON flow paired with the country
QueryOf(r) ==
    IF flow = "buyers" THEN <<r.country, upper(strip(r.postal_code))>>
    ELSE upper(strip(r.postal_code))

\* the usable rows of a file, in the order of the file
UsableRows(rows) == SelectSeq(rows, Usable)

\* the list the claims expect from a file when no limit is given
Expected(rows) == [i \in 1..Len(UsableRows(rows)) |-> QueryOf(UsableRows(rows)[i])]

\* C15: without a limit read_postal_codes returns, in the order of the file,
\* exactly the rows whose country is US or CA and whose postal code is not
\* empty after trimming, each code trimmed and upper-cased; no other row is
\* kept, none of these is dropped, and the list is neither reordered nor
\* deduplicated.
C15_ReadKeepsUsableRows ==
    (pc = "read" /\ argv[1].limit = <<>>) => postal_pairs = Expected(argv[1].rows)

\* a file was read whose Canadian code, typed in lower case between spaces,
\* occurs twice, around a row of another country
C15_Witness ==
    /\ pc = "read" /\ argv[1].limit = <<>>
    /\ Len(argv[1].rows) = 3
    /\ argv[1].rows[1] = argv[1].rows[3]
    /\ argv[1].rows[1].postal_code = TEXT.CODE_CA_CELL
    /\ argv[1].rows[2].country = TEXT.MX
    /\ Len(postal_pairs) = 2 /\ postal_pairs[1] = postal_pairs[2]

\* the first k entries of a list, or all of them when it has fewer
Prefix(s, k) == SubSeq(s, 1, IF k < Len(s) THEN k ELSE Len(s))

\* C16: the limit truncates to a prefix: for every limit that is an integer,
\* 0 included, read_postal_codes returns the first min(limit, n) of the n
\* entries it returns without a limit.
C16_LimitIsPrefix ==
    (pc = "read" /\ argv[1].limit # <<>> /\ argv[1].limit[1] >= 0) =>
        postal_pairs = Prefix(Expected(argv[1].rows), argv[1].limit[1])

----------------------------------------------------------------------------
(* Properties of the record extractor, checked under SpecExtract. *)

\* C17: two JSON mappings that carry the same name, address, city, state,
\* postal code and phone under different accepted field names, in any letter
\* case of the names, are mapped to equal Dealer records: the payload of two
\* such mappings yields two records, and they are equal.
C17_AliasesEquivalent ==
    (pc = "loop" /\ idx = 1 /\ json_blobs \in AliasVariants) =>
        (Len(dealers) = 2 /\ dealers[1] = dealers[2])

----------------------------------------------------------------------------
(* Properties of guess_country_and_state_from_address, checked under      *)
(* SpecGuess on the record parse_western_dealer_page builds from a page.   *)

\* the page collected last named a dealer, whose record is the last one
Guessed == flow = "western" /\ fetched # <<>> /\ ParsedOk(fetched[1]) /\ dealers # <<>>
LastDealer == dealers[Len(dealers)]
GuessedAddress == upper(normalize_whitespace(fetched[1].address))

\* C18: the country is decided in a fixed priority: CA when the address holds
\* a Canadian postal code, even if it also holds a number of five digits;
\* else US when it holds a number of five digits, with or without four more
\* after a hyphen; else country and state are both empty.  The address "195
\* South Plank Road Newburgh, NY 12550" gives (US, NY) and "128 Main St
\* Toronto, ON M5V 2T6" gives (CA, ON).
C18_CountryPriority ==
    /\ Guessed =>
        /\ LastDealer.country =
             IF search_ca_postal(GuessedAddress) THEN CA
             ELSE IF search_us_zip(GuessedAddress) THEN US ELSE EMPTY
        /\ LastDealer.country = EMPTY => LastDealer.state = EMPTY
    /\ \A i \in 1..Len(dealers) :
        /\ dealers[i].address = normalize_whitespace(TEXT.ADDR_NEWBURGH)
             => (dealers[i].country = US /\ dealers[i].state = TEXT.NY)
        /\ dealers[i].address = TEXT.ADDR_TORONTO
             => (dealers[i].country = CA /\ dealers[i].state = <<"O","N">>)

\* a page whose address holds a number of five digits and a Canadian postal
\* code was parsed to a Canadian dealer
C18_Witness ==
    /\ Guessed /\ pc = "done"
    /\ search_ca_postal(GuessedAddress) /\ search_us_zip(GuessedAddress)
    /\ LastDealer.country = CA /\ LastDealer.state = <<"O","N">>
    /\ Len(export) = 1

\* the state codes known for a country
KnownCodes(c) == IF c = CA THEN CA_PROVINCE_CODES ELSE IF c = US THEN US_STATE_CODES ELSE {}

\* the positions of address a where a postal code of country c is matched
PostalAt(a, c) ==
    {i \in 1..Len(a) : IF c = CA THEN ca_postal_at(a, i) ELSE c = US /\ us_zip_at(a, i)}

\* the word of two letters that ends just before the whitespace in front of
\* position i, or the empty string
PrecedingCode(a, i) ==
    IF /\ At(a, i - 1) \in Whitespace
       /\ At(a, i - 3) \in UpperSet /\ At(a, i - 2) \in UpperSet
       /\ At(a, i - 4) \notin WordChars
    THEN SubSeq(a, i - 3, i - 2) ELSE EMPTY

\* the state is empty or a code known for the country, and empty when the
\* country is
StateIsKnown ==
    Guessed =>
        /\ LastDealer.state = EMPTY \/ LastDealer.state \in KnownCodes(LastDealer.country)
        /\ LastDealer.country = EMPTY => LastDealer.state = EMPTY

\* C19: the state returned is the 2-letter code immediately preceding the
\* matched postal code when that code belongs to the known set of the
\* returned country, and "" otherwise; so the state is empty or a member of
\* CA_PROVINCE_CODES when the country is CA and of US_STATE_CODES when it is
\* US, and it is empty whenever the country is empty.
C19_StatePrecedesPostal ==
    /\ StateIsKnown
    /\ Guessed =>
        LET codes == {PrecedingCode(GuessedAddress, i) :
                        i \in PostalAt(GuessedAddress, LastDealer.country)}
                     \cap KnownCodes(LastDealer.country)
        IN  /\ LastDealer.state # EMPTY => LastDealer.state \in codes
            /\ LastDealer.state = EMPTY => codes = {}

\* the positions of address a where a comma, a 2-letter code and the start
\* of a postal code of country c follow each other
CommaCodeAt(a, c) ==
    {i \in 1..Len(a) : IF c = CA THEN ca_code_at(a, i) ELSE c = US /\ us_code_at(a, i)}

\* C19, amended: the state returned is the 2-letter code at the leftmost
\* place of the address where a comma, a 2-letter code and the start of a
\* postal code of the returned country follow each other, when that code
\* belongs to the known set of the returned country, and "" otherwise; so
\* the state is empty or a member of CA_PROVINCE_CODES when the country is CA
\* and of US_STATE_CODES when it is US, and it is empty whenever the country
\* is empty.
C19_StateAfterComma ==
    /\ StateIsKnown
    /\ Guessed =>
        LET hits == CommaCodeAt(GuessedAddress, LastDealer.country)
            leftmost == CHOOSE i \in hits : \A j \in hits : i <= j
            code == IF hits = {} THEN EMPTY ELSE group1(GuessedAddress, leftmost)
        IN  LastDealer.state =
                IF code \in KnownCodes(LastDealer.country) THEN code ELSE EMPTY

\* a page was parsed whose address holds two such places, the code of the
\* leftmost unknown and that of the other known: the state is empty
C19_Witness ==
    /\ Guessed /\ pc = "done"
    /\ LastDealer.country = US /\ LastDealer.state = EMPTY
    /\ Cardinality(CommaCodeAt(GuessedAddress, US)) = 2
    /\ \E i \in CommaCodeAt(GuessedAddress, US) : group1(GuessedAddress, i) \in US_STATE_CODES

----------------------------------------------------------------------------
(* The cadence of the cache writes, checked under SpecHarvest. *)

\* C20: each time the number of queries iterated reaches a multiple of 25,
\* whether the search of that query succeeded or was skipped with a warning,
\* the full discovered-URL set is written to the cache before the next query
\* starts, and once more after the last query: between two queries whose
\* count is a multiple of 25, and after the harvest, the persisted cache
\* equals the discovered-URL set.
\* (Stated for the runs that found no cache file or one this program wrote,
\* and whose set holds nothing but strings.)
C20_CheckpointCadence ==
    (/\ flow = "western"
     /\ cache.kind = "absent" \/ ckpt.has
     /\ \A u \in dealer_urls : isinstance_str(u)) =>
        /\ (pc = "loop" /\ idx > 0 /\ idx % CheckpointEvery = 0) =>
                persisted(cache) = dealer_urls
        /\ pc = "harvested" => persisted(cache) = dealer_urls

----------------------------------------------------------------------------
(* The discovered-URL set, checked under SpecHarvest. *)

\* a detail-page URL of the site itself, without fragment
IsDetailUrl(u) ==
    /\ isinstance_str(u)
    /\ contains(u, DEALER_URL_KEYWORD)
    /\ startswith(u, WESTERN_ORIGIN)
    /\ "#" \notin Range(u)

----------------------------------------------------------------------------
(* The order of the queries, checked under Spec. *)

\* the search of the next query is started in this step
SearchStarted == Len(attempted') = Len(attempted) + 1

\* the query loop is left at its end in this step
LoopLeft == pc = "loop" /\ pc' \in {"harvested", "dedupe"}

\* between the start of a search and the end of the processing of its query
InQuery == pc \in {"collect", "extract"}

\* C22: in both flows the queries are consumed one after the other, in the
\* order of the loaded list, each once: a search starts only at the head of
\* the loop, for the query after the last one that was finished or skipped,
\* and the loop is left only when every query of the list has been attempted.
C22_QueriesInInputOrder ==
    /\ [](/\ idx <= Len(postal_pairs)
          /\ Len(attempted) \in {idx, idx + 1}
          /\ InQuery => Len(attempted) = idx + 1
          /\ pc = "loop" \/ LoopEnded => Len(attempted) = idx
          /\ \A i \in 1..Len(attempted) : attempted[i] = postal_pairs[i])
    /\ [][/\ postal_pairs' = postal_pairs
          /\ idx' \in {idx, idx + 1}
          /\ attempted' # attempted =>
                /\ SearchStarted
                /\ pc = "loop" /\ Len(attempted) = idx
                /\ attempted' = Append(attempted, postal_pairs[idx + 1])
          /\ LoopLeft => attempted = postal_pairs]_vars

\* the JSON flow has left its loop after three queries, the first two for
\* the same postal code, each of them attempted once
C22_Witness ==
    /\ flow = "buyers" /\ pc = "dedupe"
    /\ Len(postal_pairs) = MaxBuyersQueries
    /\ postal_pairs[1] = postal_pairs[2]
    /\ attempted = postal_pairs
    /\ all_dealers # <<>>

----------------------------------------------------------------------------
(* The country hint of the JSON flow, checked under SpecRun. *)

\* the step that extracts the records of a query and fixes their country
FixUpStep == flow = "buyers" /\ pc = "extract" /\ pc' = "loop"

SameButCountry(d, e) ==
    /\ d.dealer_name = e.dealer_name /\ d.state = e.state
    /\ d.address = e.address /\ d.phone = e.phone /\ d.email = e.email

\* C23: the fix-up of a query changes only an empty country: each fixed
\* record has its extracted country when that is not empty and the hint of
\* the query otherwise, and its other fields as extracted; so every record
\* that enters dedupe has country US or CA, and dedupe and the export
\* change no record.
C23_HintFillsEmptyCountry ==
    /\ [][FixUpStep =>
            LET extracted == ExtractedDealers[json_blobs]
                country_hint == postal_pairs[idx + 1][1]
            IN  /\ Len(dealers') = Len(extracted)
                /\ \A i \in 1..Len(extracted) :
                      /\ dealers'[i].country =
                            IF extracted[i].country # EMPTY
                            THEN extracted[i].country ELSE country_hint
                      /\ SameButCountry(dealers'[i], extracted[i])
                /\ all_dealers' = all_dealers \o dealers']_vars
    /\ [](flow = "buyers" =>
            /\ \A i \in 1..Len(all_dealers) : all_dealers[i].country \in {US, CA}
            /\ Range(unique) \subseteq Range(all_dealers)
            /\ pc = "done" => export = write_excel(unique))
    /\ [][flow = "buyers" /\ pc \in {"dedupe", "write_excel", "done"} =>
            /\ all_dealers' = all_dealers
            /\ pc # "dedupe" => unique' = unique]_vars

\* a query for a US postal code has returned two dealers in an envelope: the
\* first without a country, now US, the second of Canada, still CA
C23_Witness ==
    /\ flow = "buyers" /\ pc = "loop" /\ idx >= 1
    /\ postal_pairs[idx][1] = US
    /\ json_blobs = <<BLOB_ENVELOPE>>
    /\ Len(dealers) = 2
    /\ ExtractedDealers[json_blobs][1].country = EMPTY /\ dealers[1].country = US
    /\ ExtractedDealers[json_blobs][2].country = CA /\ dealers[2].country = CA

----------------------------------------------------------------------------
(* The search for dealer mappings, checked under SpecPayload. *)

\* the values directly inside a mapping or a sequence
Children(obj) ==
    IF obj[1] = "dict" THEN dict_values(obj)
    ELSE IF obj[1] = "list" THEN obj[2] ELSE <<>>

\* the paths of a JSON value: the positions taken from child to child
RECURSIVE Paths(_)
Paths(obj) ==
    {<<>>} \cup UNION {{<<i>> \o p : p \in Paths(Children(obj)[i])} :
                          i \in 1..Len(Children(obj))}

RECURSIVE Sub(_, _)
Sub(obj, p) == IF p = <<>> THEN obj ELSE Sub(Children(obj)[Head(p)], Tail(p))

HasKey(m, alias) == \E k \in Range(dict_keys(m)) : lower(k) = lower(alias)

\* a name-like key, and a direct address key or city, state and postal keys
DualSignal(m) ==
    /\ \E a \in Range(NAME_KEYS) : HasKey(m, a)
    /\ \/ \E a \in Range(LINE1_KEYS) : HasKey(m, a)
       \/ /\ HasKey(m, KEY.city)
          /\ HasKey(m, KEY.state) \/ HasKey(m, KEY.province)
          /\ HasKey(m, KEY.zip) \/ HasKey(m, KEY.postal) \/ HasKey(m, KEY.PostalCode)

\* the places of the payloads that hold the mapping m
PlacesOf(m) == {p \in Paths(JList(json_blobs)) : Sub(JList(json_blobs), p) = m}

\* how often the walk has collected m
Collected(m) == Cardinality({i \in 1..Len(walk_each(json_blobs)) : walk_each(json_blobs)[i] = m})

\* the mappings of the payloads, at any depth
MappingsOf(blobs) == {m \in {Sub(JList(blobs), p) : p \in Paths(JList(blobs))} : m[1] = "dict"}

\* C24: walk_json collects a mapping of the payloads, at any depth of
\* mappings and sequences and also inside a collected mapping, once for
\* each place it is at if it has both signals, and never otherwise; it
\* collects nothing else.
C24_WalkCollectsDualSignal ==
    /\ \A m \in MappingsOf(json_blobs) :
          Collected(m) = IF DualSignal(m) THEN Cardinality(PlacesOf(m)) ELSE 0
    /\ Range(walk_each(json_blobs)) \subseteq MappingsOf(json_blobs)

\* a dealer mapping that holds another dealer mapping under one of its
\* keys: both were collected and both became records
C24_Witness ==
    /\ pc = "loop" /\ idx = 1 /\ Len(json_blobs) = 1
    /\ json_blobs[1][1] = "dict" /\ DualSignal(json_blobs[1])
    /\ \E i \in 1..Len(json_blobs[1][2]) :
          /\ json_blobs[1][2][i][2][1] = "dict"
          /\ DualSignal(json_blobs[1][2][i][2])
          /\ Collected(json_blobs[1][2][i][2]) = 1
    /\ Len(dealers) = 2

----------------------------------------------------------------------------
(* The field aliases of the extractor, checked under SpecPayload. *)

\* the alias lists of lines 359-370, one for each field
FieldAliases ==
    {NAME_KEYS, LINE1_KEYS, LINE2_KEYS, CITY_KEYS, STATE_KEYS, POSTAL_KEYS,
     COUNTRY_KEYS, PHONE_KEYS}

\* the trimmed values the mapping holds for an alias: those of the keys
\* equal to it but for letter case whose value is a scalar and not blank
Qualifying(d, alias) ==
    {strip(d[2][i][2][2]) :
        i \in {j \in 1..Len(d[2]) :
                 /\ lower(d[2][j][1]) = lower(alias)
                 /\ d[2][j][2][1] \in {"str", "num"}
                 /\ strip(d[2][j][2][2]) # EMPTY}}

\* the first alias of the list with a qualifying value, or 0
FirstAlias(d, names) ==
    IF \E n \in 1..Len(names) : Qualifying(d, names[n]) # {}
    THEN CHOOSE n \in 1..Len(names) :
            /\ Qualifying(d, names[n]) # {}
            /\ \A k \in 1..(n - 1) : Qualifying(d, names[k]) = {}
    ELSE 0

\* C25: for each field the extracted value is the trimmed value of the
\* first alias, in the order of the list, for which the mapping has a key
\* equal to it but for letter case with a non-empty scalar value; absent,
\* null, non-scalar and blank aliases are passed over, and the result is
\* empty only if no alias qualifies, also when the mapping has several
\* keys that differ in letter case only.
C25_FirstQualifyingAlias ==
    flow = "buyers" /\ pc = "loop" /\ idx > 0 =>
        \A m \in Range(walk_each(json_blobs)) : \A names \in FieldAliases :
            IF FirstAlias(m, names) = 0 THEN get_any(m, names) = EMPTY
            ELSE get_any(m, names) \in Qualifying(m, names[FirstAlias(m, names)])

----------------------------------------------------------------------------
(* The country of an extracted record, checked under SpecPayload. *)

HasName(m) == get_any(m, NAME_KEYS) # EMPTY

\* the collected mappings that become records, in order
NamedMappings == SelectSeq(walk_each(json_blobs), HasName)

\* the country text of a mapping, trimmed and upper-cased
CountryText(m) == upper(strip(get_any(m, COUNTRY_KEYS)))

CountryOf(t) ==
    IF t \in {upper(TEXT.United_States), TEXT.Usa, US} THEN US
    ELSE IF t \in {upper(TEXT.Canada), CA} THEN CA
    ELSE EMPTY

\* the query whose payloads were extracted last
Extracted == flow = "buyers" /\ pc = "loop" /\ idx > 0 /\ json_blobs \in DOMAIN ExtractedDealers

\* C26: the country of an extracted record is US when its source text,
\* trimmed and upper-cased, is UNITED STATES, USA or US, CA when it is
\* CANADA or CA, and empty for any other text, so that the extractor emits
\* no country outside US, CA and the empty text (the fix-up then gives the
\* records with an empty country the hint of the query).
C26_CountryNormalised ==
    Extracted /\ dealers = fix_all(ExtractedDealers[json_blobs], postal_pairs[idx][1]) =>
        LET records == ExtractedDealers[json_blobs]
        IN  /\ Len(records) = Len(NamedMappings)
            /\ \A i \in 1..Len(records) :
                  /\ records[i].country = CountryOf(CountryText(NamedMappings[i]))
                  /\ records[i].country \in {US, CA, EMPTY}
                  /\ dealers[i].country =
                        IF records[i].country = EMPTY
                        THEN postal_pairs[idx][1] ELSE records[i].country

\* a query for a US postal code has returned a dealer whose country is
\* written " CANADA " and one without a country: CA and US
C26_Witness ==
    /\ Extracted /\ postal_pairs[idx][1] = US
    /\ Len(NamedMappings) = 2 /\ Len(dealers) = 2
    /\ get_any(NamedMappings[1], COUNTRY_KEYS) = upper(TEXT.Canada)
    /\ \E p \in Range(NamedMappings[1][2]) : p[2] = JStr(TEXT.CANADA_PADDED)
    /\ get_any(NamedMappings[2], COUNTRY_KEYS) = EMPTY
    /\ dealers[1].country = CA /\ dealers[2].country = US

----------------------------------------------------------------------------
(* The record list of the thread pool, checked under Spec. *)

\* the URLs whose future has been collected
CollectedUrls == dealer_urls \ pending

\* the pool is at work or has finished
Submitted == flow = "western" /\ pc \in {"fetch", "dedupe", "write_excel", "done"}

\* C27: the record list is appended to only when the orchestrating thread
\* collects the result of a future: each collection takes one submitted URL
\* and appends its record if the parse returned one, nothing else changes
\* the list, so that no record is lost or appended twice; every URL of the
\* final set is submitted once, in the one step that starts the pool, and
\* when the pool has finished every URL has been collected.
C27_OnlyCollectorAppends ==
    /\ [](Submitted =>
            /\ pending \subseteq dealer_urls
            /\ Len(dealers) <= Cardinality(CollectedUrls)
            /\ pc # "fetch" => pending = {})
    /\ [][flow = "western" /\ dealers' # dealers =>
            /\ pc = "fetch"
            /\ Cardinality(pending') = Cardinality(pending) - 1
            /\ ParsedOk(fetched'[1])
            /\ dealers' = Append(dealers, ParsedPage[fetched'[1]][1])]_vars
    /\ [][flow = "western" /\ pending' # pending =>
            \/ /\ pc = "harvested" /\ pc' = "fetch"
               /\ pending' = dealer_urls /\ dealers' = <<>>
            \/ /\ pc = "fetch"
               /\ \E u \in pending : pending' = pending \ {u}
               /\ Len(dealers') = Len(dealers) + (IF ParsedOk(fetched'[1]) THEN 1 ELSE 0)]_vars
    /\ [][Submitted => dealer_urls' = dealer_urls /\ pc' # "harvested"]_vars

\* the pool has finished three URLs and every page gave a record: the list
\* holds three records
C27_Witness ==
    /\ flow = "western" /\ pc = "dedupe" /\ pending = {}
    /\ Cardinality(dealer_urls) = 3
    /\ Len(dealers) = 3

=============================================================================
